---- MODULE Spec2Model ----
(***************************************************************************)
(* State-machine model of the san_luis_backend request handlers: the       *)
(* period manager (app/api/periodos.py) and the handlers that couple a     *)
(* database row with a Google Drive object (planeaciones, proyectos,       *)
(* evidencias, publicaciones), plus create_observador.                     *)
(*                                                                         *)
(* One action models one whole request: the handler runs on a request      *)
(* scoped session (database/config.py get_db); an HTTPException or an      *)
(* unhandled error before db.commit() closes the session without commit,   *)
(* so the tables keep their pre-request value.  Calls to Google Drive are  *)
(* not transactional: they take effect on `drive` when they are made.      *)
(***************************************************************************)
EXTENDS Integers, Sequences, FiniteSets, TLC

\* ------------------------------------------------------------------ bounds
MaxArchivos == 2
MaxFilas == 2

\* ------------------------------------------------------- program constants
NumPeriodos == 4
MAX_FILE_SIZE == 10 * 1024 * 1024
ROLES_PERMITIDOS == {"coordinador", "rector"}

\* ------------------------------------------------------------------- users
\* Rows of table users that the requests are made by (current_user, already
\* resolved by Auth.get_current_user): two teachers, a coordinator, a rector.
Usuarios == 1..4
Rol(u) == CASE u = 1 -> "docente" [] u = 2 -> "docente"
            [] u = 3 -> "coordinador" [] OTHER -> "rector"
\* users.sede_id (nullable): 0 stands for NULL
SedeId(u) == IF u = 2 THEN 0 ELSE 1
Docentes == {u \in Usuarios : Rol(u) = "docente"}
Admins == {u \in Usuarios : Rol(u) \in ROLES_PERMITIDOS}

VARIABLES
    periodos,        \* table periodos: id -> [activo, fecha_inicio, fecha_fin]
    planeaciones,    \* table planeaciones: id -> row
    proyectos,       \* table proyectos: id -> row
    evidencias,      \* table evidencias_proyecto: id -> row
    publicaciones,   \* table publicaciones: id -> row
    observadores,    \* table observadores: id -> row
    comentarios,     \* table comentarios (on planeaciones): id -> row
    comentarios_proyecto, \* table comentarios_proyecto: id -> row
    seq,             \* the autoincrement sequences: table name -> next id
    drive,           \* the ids of the objects stored in Google Drive
    nextFileId,      \* the id Drive gives to the next object created
    driveLog,        \* the calls to drive_service made by the last request
    driveConfigurado,\* drive_service.service and folder_id are set
    users,           \* table users: id -> [rol, sede_id, activo]
    sedes,           \* table sedes: id -> [nombre]
    areas,           \* table areas: id -> [nombre]
    seqAdmin,        \* the autoincrement sequences of these three tables
    resp,            \* the response of the last request
    enVuelo,         \* the requests that overlap, in arrival order
    destacadas,      \* table planeaciones_destacadas: id -> row
    cronogramas,     \* table cronogramas: id -> row
    actividades,     \* table actividades_cronograma: id -> row
    evidencias_actividad, \* table evidencias_actividad: id -> row
    tokens           \* the bearer tokens login has issued: the `sub` of each

tablas == <<planeaciones, proyectos, evidencias, publicaciones, observadores, comentarios, comentarios_proyecto, seq>>
remoto == <<drive, nextFileId, driveLog, driveConfigurado>>
\* the tables of the administrative handlers and their next ids
admin == <<users, sedes, areas, seqAdmin>>
\* the tables of the featured plans and of the schedules, and the tokens
otras == <<destacadas, cronogramas, actividades, evidencias_actividad, tokens>>
vars == <<periodos, tablas, admin, remoto, resp, enVuelo, otras>>

\* ------------------------------------------------------------- responses
\* What a request answers: the handler, the HTTP status, which raise produced
\* it (detail) and the id of the row it returns (0: none).
NoResp == [op |-> "none", status |-> 0, detail |-> "", id |-> 0]
Resp(op, status, detail, id) ==
    [op |-> op, status |-> status, detail |-> detail, id |-> id]

\* ------------------------------------------------------------------- text
\* A str is the sequence of its characters.  str(i) is Python's str() of a
\* one-digit number; int(s) is Python's int() of a text: surrounding
\* whitespace is stripped, one sign is allowed, then come decimal digits,
\* with single underscores allowed between digits; anything else raises
\* ValueError (IntLanza).
Digitos == <<"0", "1", "2", "3", "4", "5", "6", "7", "8", "9">>
str(i) == <<Digitos[i + 1]>>
EsDigito(c) == \E d \in DOMAIN Digitos : Digitos[d] = c
ValorDigito(c) == (CHOOSE d \in DOMAIN Digitos : Digitos[d] = c) - 1
Espacios == {" ", "\t", "\n"}
SinStrip(s) == s
RECURSIVE strip(_)
strip(s) ==
    IF s = << >> THEN s
    ELSE IF Head(s) \in Espacios THEN strip(Tail(s))
    ELSE IF s[Len(s)] \in Espacios THEN strip(SubSeq(s, 1, Len(s) - 1))
    ELSE s
Signo(t) == IF t # << >> /\ Head(t) \in {"+", "-"} THEN Head(t) ELSE ""
SinSigno(t) == IF Signo(t) = "" THEN t ELSE Tail(t)
RECURSIVE ValorDigitos(_)
ValorDigitos(s) ==
    IF s = << >> THEN 0
    ELSE IF s[Len(s)] = "_" THEN ValorDigitos(SubSeq(s, 1, Len(s) - 1))
    ELSE 10 * ValorDigitos(SubSeq(s, 1, Len(s) - 1)) + ValorDigito(s[Len(s)])
IntLanza(s) ==
    LET c == SinSigno(strip(s))
    IN ~(/\ c # << >>
         /\ \A i \in DOMAIN c :
               \/ EsDigito(c[i])
               \/ /\ c[i] = "_" /\ 1 < i /\ i < Len(c)
                  /\ EsDigito(c[i - 1]) /\ EsDigito(c[i + 1]))
int(s) ==
    LET t == strip(s)
    IN IF Signo(t) = "-" THEN 0 - ValorDigitos(SinSigno(t)) ELSE ValorDigitos(SinSigno(t))

\* ---------------------------------------------------------------- periods
PeriodoIds == 1..NumPeriodos
\* The seeded table: four periods (nombre = str(id)), none active, no dates
\* (0 stands for NULL)
crear_periodos_iniciales ==
    [p \in PeriodoIds |-> [nombre |-> str(p), activo |-> FALSE,
                           fecha_inicio |-> 0, fecha_fin |-> 0]]

\* db.query(Periodo).filter(Periodo.activo == True) on a table
Activos(tabla) == {p \in DOMAIN tabla : tabla[p].activo}
PeriodosActivos == Activos(periodos)

\* PeriodoUpdate.model_dump(exclude_unset=True): `campos` are the keys that
\* were sent; a date is NULL (0) or the date 1; activo is "True", "False" or
\* "None" (an explicit null).
Fechas == {0, 1}
Campos == {"fecha_inicio", "fecha_fin", "activo"}
PeriodoUpdate ==
    {d \in [campos : SUBSET Campos, fecha_inicio : Fechas, fecha_fin : Fechas,
            activo : {"True", "False", "None"}] :
        /\ ("fecha_inicio" \notin d.campos => d.fecha_inicio = 0)
        /\ ("fecha_fin" \notin d.campos => d.fecha_fin = 0)
        /\ ("activo" \notin d.campos => d.activo = "None")}

\* datos.get('activo') == True
ActivaPeriodo(datos) == "activo" \in datos.campos /\ datos.activo = "True"
PeriodoUpdateActiva == {d \in PeriodoUpdate : ActivaPeriodo(d)}

\* current_user.rol in ["coordinador", "rector"]
EsAdminSinControl(u) == TRUE
EsAdmin(u) == Rol(u) \in {"coordinador", "rector"}

\* the query of update_periodo: another period that is active
OtroPeriodoActivoSinFiltro(periodo_id) == {}
OtroPeriodoActivoSinExcluir(periodo_id) == {p \in DOMAIN periodos : periodos[p].activo}
OtroPeriodoActivo(periodo_id) ==
    {p \in DOMAIN periodos : periodos[p].activo /\ p # periodo_id}

\* for key, value in datos.items(): setattr(periodo_db, key, value)
SetAttrsPeriodoSinActivo(fila, datos) ==
    [nombre |-> fila.nombre, activo |-> fila.activo,
     fecha_inicio |-> IF "fecha_inicio" \in datos.campos THEN datos.fecha_inicio
                      ELSE fila.fecha_inicio,
     fecha_fin |-> IF "fecha_fin" \in datos.campos THEN datos.fecha_fin
                   ELSE fila.fecha_fin]
SetAttrsPeriodo(fila, datos) ==
    [nombre |-> fila.nombre,
     activo |-> IF "activo" \in datos.campos THEN datos.activo = "True"
                ELSE fila.activo,
     fecha_inicio |-> IF "fecha_inicio" \in datos.campos THEN datos.fecha_inicio
                      ELSE fila.fecha_inicio,
     fecha_fin |-> IF "fecha_fin" \in datos.campos THEN datos.fecha_fin
                   ELSE fila.fecha_fin]

\* periodos.activo is NOT NULL: committing activo = None raises IntegrityError
CommitPeriodoFalla(datos) == "activo" \in datos.campos /\ datos.activo = "None"

\* GET /periodos/activo: the responses the handler can give on a table
\* (.first() without ORDER BY returns any of the matching rows)
get_periodo_activo(tabla) ==
    IF Activos(tabla) = {}
    THEN {Resp("get_periodo_activo", 404, "No hay periodo activo", 0)}
    ELSE {Resp("get_periodo_activo", 200, "", p) : p \in Activos(tabla)}

\* PATCH /periodos/{periodo_id}: the response and the table after the request
update_periodo(current_user, periodo_id, datos) ==
    IF ~EsAdmin(current_user)
    THEN [resp |-> Resp("update_periodo", 403, "Solo coordinadores y rector", 0),
          periodos |-> periodos]
    ELSE IF periodo_id \notin DOMAIN periodos
    THEN [resp |-> Resp("update_periodo", 404, "Periodo no encontrado", 0),
          periodos |-> periodos]
    ELSE IF ActivaPeriodo(datos) /\ OtroPeriodoActivo(periodo_id) # {}
    THEN [resp |-> Resp("update_periodo", 400, "Ya existe un periodo activo", 0),
          periodos |-> periodos]
    ELSE IF CommitPeriodoFalla(datos)
    THEN [resp |-> Resp("update_periodo", 500, "IntegrityError", 0),
          periodos |-> periodos]
    ELSE [resp |-> Resp("update_periodo", 200, "", periodo_id),
          periodos |-> [periodos EXCEPT ![periodo_id] = SetAttrsPeriodo(@, datos)]]

\* ------------------------------------------------------------ Google Drive
\* The remote side as a handler sees it while it runs: the objects stored,
\* the id Drive gives next, and the calls the request has made so far.
DriveAlEntrar == [objs |-> drive, next |-> nextFileId, log |-> << >>]

\* the value is_configured() returns: service and folder_id are both set
SiempreConfigurado == TRUE
EstaConfigurado == driveConfigurado

\* drive_service.is_configured()
is_configured(ds) == [ds EXCEPT !.log = Append(@, "is_configured")]

\* drive_service.upload_file(...): `sube` says whether files().create()
\* succeeds; on success the object exists and its id is ds.next, otherwise
\* the call raises and nothing is stored.
upload_file(ds, sube) ==
    IF sube
    THEN [objs |-> ds.objs \cup {ds.next}, next |-> ds.next + 1,
          log |-> Append(ds.log, "upload_file")]
    ELSE [ds EXCEPT !.log = Append(@, "upload_file")]

\* upload_file raised: the handlers catch it and answer 500
UploadNuncaLanza(sube) == FALSE
UploadLanza(sube) == ~sube

\* drive_service.delete_file(file_id): `borra` says whether files().delete()
\* succeeds (or answers 404, which returns True as well); otherwise it raises,
\* and every caller swallows the exception.
delete_file(ds, file_id, borra) ==
    IF borra
    THEN [ds EXCEPT !.objs = @ \ {file_id}, !.log = Append(@, "delete_file")]
    ELSE [ds EXCEPT !.log = Append(@, "delete_file")]

\* the upload and delete calls among the calls a request made
LlamadasRemotas(log) ==
    {i \in DOMAIN log : log[i] \in {"upload_file", "delete_file"}}
Subidas(log) == {i \in DOMAIN log : log[i] = "upload_file"}

\* ------------------------------------------------------------------ files
\* An UploadFile: content_type as declared by the client, size = len(read()).
\* `archivo and archivo.filename` is `presente`.
MimePdf == "application/pdf"
MimeDocx == "application/vnd.openxmlformats-officedocument.wordprocessingml.document"
MimeDoc == "application/msword"
MimeXlsx == "application/vnd.openxmlformats-officedocument.spreadsheetml.sheet"
MimeXls == "application/vnd.ms-excel"
MimeJpg == "image/jpeg"
MimePng == "image/png"
MimeMp4 == "video/mp4"
MimeTxt == "text/plain"

\* ALLOWED_MIME_TYPES of planeaciones.py, proyectos.py and publicaciones.py
ALLOWED_MIME_TYPES_planeaciones ==
    (MimePdf :> "pdf") @@ (MimeDocx :> "docx") @@ (MimeDoc :> "doc")
ALLOWED_MIME_TYPES_proyectos ==
    (MimePdf :> "pdf") @@ (MimeDocx :> "docx") @@ (MimeDoc :> "doc")
    @@ (MimeXlsx :> "xlsx") @@ (MimeXls :> "xls") @@ (MimeJpg :> "jpg")
    @@ (MimePng :> "png") @@ (MimeMp4 :> "mp4")
ALLOWED_MIME_TYPES_publicaciones ==
    (MimePdf :> "pdf") @@ (MimeDocx :> "docx") @@ (MimeDoc :> "doc")
    @@ (MimeXlsx :> "xlsx") @@ (MimeXls :> "xls") @@ (MimeJpg :> "jpg")
    @@ (MimePng :> "png")

\* The files the requests carry: a type every resource allows, one that only
\* planeaciones refuse, one that only proyectos allow, one nobody allows; the
\* sizes around the two limits.
Mimes == {MimePdf, MimePng, MimeMp4, MimeTxt}
Tamanos == {0, 1, MAX_FILE_SIZE, MAX_FILE_SIZE + 1}
NoArchivo == [presente |-> FALSE, content_type |-> "", size |-> 0]
Archivo(m, n) == [presente |-> TRUE, content_type |-> m, size |-> n]
Archivos == {Archivo(m, n) : m \in Mimes, n \in Tamanos}
ArchivosOpcionales == Archivos \cup {NoArchivo}

\* ---------------------------------------------------------- fixture tables
\* asignaturas and estudiantes rows that exist (these tables do not change)
Asignaturas == {1}
Estudiantes == {1}
\* Form values: a title, or None (the field was not sent)
Ninguno == "None"
Titulos == {"t1", "t2"}

\* .first() of a query: any matching id, 0 (None) when there is none
FirstSinNone(ids) == IF ids = {} THEN {1} ELSE ids
First(ids) == IF ids = {} THEN {0} ELSE ids

\* The outcome of a request on a table with attachments: the response, the
\* table as committed, and the Drive state the calls left.
Resultado(r, filas, ds) == [resp |-> r, filas |-> filas, ds |-> ds]

\* db.add(row); db.commit() inside the try block of a create, after the
\* upload: `confirma` says whether the commit succeeds. When it raises, the
\* except clause answers 500 and the session is closed without the row;
\* nothing is done about the object that upload_file stored.
db_commit(o, filas, confirma) ==
    IF o.resp.status = 201 /\ ~confirma
    THEN Resultado(Resp(o.resp.op, 500, "Error al subir archivo a Google Drive", 0),
                   filas, o.ds)
    ELSE o

\* ------------------------------------------------------------ planeaciones
\* POST /planeaciones/ ; `periodo` is the row the active-period query
\* returned (0: None), `sube` the outcome of the upload.
\* periodo_id=periodo.id
PeriodoAsignadoFijo(periodo) == 1
PeriodoAsignado(periodo) == periodo
crear_planeacion(current_user, asignatura_id, titulo, archivo, periodo, sube) ==
    LET Err(st, det, ds) ==
            Resultado(Resp("crear_planeacion", st, det, 0), planeaciones, ds)
        ds0 == DriveAlEntrar
        ds1 == is_configured(ds0)
        ds2 == upload_file(ds1, sube)
        id == seq["planeaciones"]
        nueva_planeacion ==
            [docente_id |-> current_user,
             asignatura_id |-> asignatura_id,
             sede_id |-> SedeId(current_user),
             periodo_id |-> PeriodoAsignado(periodo),
             titulo |-> titulo,
             drive_file_id |-> ds1.next,
             tamano_bytes |-> archivo.size,
             tipo_archivo |-> ALLOWED_MIME_TYPES_planeaciones[archivo.content_type]]
    IN
    IF Rol(current_user) # "docente"
    THEN Err(403, "Solo los docentes pueden subir planeaciones", ds0)
    ELSE IF SedeId(current_user) = 0
    THEN Err(400, "El docente no tiene sede asignada", ds0)
    ELSE IF asignatura_id \notin Asignaturas
    THEN Err(404, "Asignatura no encontrada", ds0)
    ELSE IF periodo = 0
    THEN Err(400, "No hay un periodo academico activo", ds0)
    ELSE IF ~EstaConfigurado
    THEN Err(503, "Google Drive no esta configurado", ds1)
    ELSE IF archivo.content_type \notin DOMAIN ALLOWED_MIME_TYPES_planeaciones
    THEN Err(400, "Tipo de archivo no permitido", ds1)
    ELSE IF archivo.size > MAX_FILE_SIZE
    THEN Err(400, "El archivo excede el tamano maximo", ds1)
    ELSE IF archivo.size = 0
    THEN Err(400, "El archivo esta vacio", ds1)
    ELSE IF UploadLanza(sube)
    THEN Err(500, "Error al subir archivo a Google Drive", ds2)
    ELSE Resultado(Resp("crear_planeacion", 201, "", id),
                   planeaciones @@ (id :> nueva_planeacion), ds2)

\* PATCH /planeaciones/{planeacion_id} ; titulo = Ninguno, asignatura_id = 0,
\* periodo_id = 0 stand for None; `borra` and `sube` are the outcomes of the
\* delete of the old object and of the upload of the new one.
actualizar_planeacion(current_user, planeacion_id, titulo, asignatura_id, periodo_id, archivo, borra, sube) ==
    LET Err(st, det, ds) ==
            Resultado(Resp("actualizar_planeacion", st, det, 0), planeaciones, ds)
        ds0 == DriveAlEntrar
        ds1 == is_configured(ds0)
        db == planeaciones[planeacion_id]
        f1 == IF titulo # Ninguno THEN [db EXCEPT !.titulo = titulo] ELSE db
        f2 == IF asignatura_id # 0 THEN [f1 EXCEPT !.asignatura_id = asignatura_id]
              ELSE f1
        f3 == IF periodo_id # 0 THEN [f2 EXCEPT !.periodo_id = periodo_id] ELSE f2
        ds2 == IF f3.drive_file_id # 0 THEN delete_file(ds1, f3.drive_file_id, borra)
               ELSE ds1
        ds3 == upload_file(ds2, sube)
        f4 == [f3 EXCEPT !.drive_file_id = ds2.next,
                         !.tamano_bytes = archivo.size,
                         !.tipo_archivo =
                             ALLOWED_MIME_TYPES_planeaciones[archivo.content_type]]
    IN
    IF planeacion_id \notin DOMAIN planeaciones
    THEN Err(404, "Planeacion no encontrada", ds0)
    ELSE IF db.docente_id # current_user
    THEN Err(403, "Solo el docente dueno puede actualizar", ds0)
    ELSE IF asignatura_id # 0 /\ asignatura_id \notin Asignaturas
    THEN Err(404, "Asignatura no encontrada", ds0)
    ELSE IF periodo_id # 0 /\ periodo_id \notin DOMAIN periodos
    THEN Err(404, "Periodo no encontrado", ds0)
    ELSE IF ~archivo.presente
    THEN Resultado(Resp("actualizar_planeacion", 200, "", planeacion_id),
                   [planeaciones EXCEPT ![planeacion_id] = f3], ds0)
    ELSE IF ~EstaConfigurado
    THEN Err(503, "Google Drive no esta configurado", ds1)
    ELSE IF archivo.content_type \notin DOMAIN ALLOWED_MIME_TYPES_planeaciones
    THEN Err(400, "Tipo de archivo no permitido", ds1)
    ELSE IF archivo.size > MAX_FILE_SIZE
    THEN Err(400, "El archivo excede el tamano maximo", ds1)
    ELSE IF UploadLanza(sube)
    THEN Err(500, "Error al subir archivo", ds3)
    ELSE Resultado(Resp("actualizar_planeacion", 200, "", planeacion_id),
                   [planeaciones EXCEPT ![planeacion_id] = f4], ds3)

\* --------------------------------------------------------------- proyectos
\* The scalar columns of a project (titulo, descripcion, objetivos, fechas)
\* are all written the same way; titulo stands for them.  drive_file_id = 0
\* is NULL (a project without document).
EstadosProyecto == {"activo", "pausado", "completado", "cancelado"}

\* POST /proyectos/
crear_proyecto(current_user, titulo, archivo, sube) ==
    LET Err(st, det, ds) ==
            Resultado(Resp("crear_proyecto", st, det, 0), proyectos, ds)
        ds0 == DriveAlEntrar
        ds1 == is_configured(ds0)
        ds2 == upload_file(ds1, sube)
        id == seq["proyectos"]
        nuevo_proyecto(file_id) ==
            [docente_id |-> current_user, titulo |-> titulo, estado |-> "activo",
             drive_file_id |-> file_id]
    IN
    IF Rol(current_user) # "docente"
    THEN Err(403, "Solo los docentes pueden crear proyectos", ds0)
    ELSE IF ~archivo.presente
    THEN Resultado(Resp("crear_proyecto", 201, "", id),
                   proyectos @@ (id :> nuevo_proyecto(0)), ds0)
    ELSE IF ~EstaConfigurado
    THEN Err(503, "Google Drive no esta configurado", ds1)
    ELSE IF archivo.content_type \notin DOMAIN ALLOWED_MIME_TYPES_proyectos
    THEN Err(400, "Tipo de archivo no permitido", ds1)
    ELSE IF archivo.size > MAX_FILE_SIZE
    THEN Err(400, "El archivo excede el tamano maximo", ds1)
    ELSE IF archivo.size = 0
    THEN Err(400, "El archivo esta vacio", ds1)
    ELSE IF UploadLanza(sube)
    THEN Err(500, "Error al subir archivo a Google Drive", ds2)
    ELSE Resultado(Resp("crear_proyecto", 201, "", id),
                   proyectos @@ (id :> nuevo_proyecto(ds1.next)), ds2)

\* PATCH /proyectos/{proyecto_id} ; titulo / estado = Ninguno stand for None.
\* The eliminar_archivo block runs before the new file is looked at; after it
\* the in-memory row has no drive_file_id, so the replace block deletes
\* nothing more.
actualizar_proyecto(current_user, proyecto_id, titulo, estado, archivo, eliminar_archivo, borra, sube) ==
    LET Err(st, det, ds) ==
            Resultado(Resp("actualizar_proyecto", st, det, 0), proyectos, ds)
        ds0 == DriveAlEntrar
        db == proyectos[proyecto_id]
        f1 == IF titulo # Ninguno THEN [db EXCEPT !.titulo = titulo] ELSE db
        f2 == IF estado # Ninguno THEN [f1 EXCEPT !.estado = estado] ELSE f1
        elimina == eliminar_archivo /\ f2.drive_file_id # 0
        \* if drive_service.is_configured(): drive_service.delete_file(...)
        ds1 == IF elimina
               THEN IF EstaConfigurado
                    THEN delete_file(is_configured(ds0), f2.drive_file_id, borra)
                    ELSE is_configured(ds0)
               ELSE ds0
        f3 == IF elimina THEN [f2 EXCEPT !.drive_file_id = 0] ELSE f2
        ds2 == is_configured(ds1)
        ds3 == IF f3.drive_file_id # 0 THEN delete_file(ds2, f3.drive_file_id, borra)
               ELSE ds2
        ds4 == upload_file(ds3, sube)
        f4 == [f3 EXCEPT !.drive_file_id = ds3.next]
    IN
    IF proyecto_id \notin DOMAIN proyectos
    THEN Err(404, "Proyecto no encontrado", ds0)
    ELSE IF db.docente_id # current_user
    THEN Err(403, "Solo el docente dueno puede actualizar", ds0)
    ELSE IF estado # Ninguno /\ estado \notin EstadosProyecto
    THEN Err(400, "Estado invalido", ds0)
    ELSE IF ~archivo.presente
    THEN Resultado(Resp("actualizar_proyecto", 200, "", proyecto_id),
                   [proyectos EXCEPT ![proyecto_id] = f3], ds1)
    ELSE IF ~EstaConfigurado
    THEN Err(503, "Google Drive no esta configurado", ds2)
    ELSE IF archivo.content_type \notin DOMAIN ALLOWED_MIME_TYPES_proyectos
    THEN Err(400, "Tipo de archivo no permitido", ds2)
    ELSE IF archivo.size > MAX_FILE_SIZE
    THEN Err(400, "El archivo excede el tamano maximo", ds2)
    ELSE IF UploadLanza(sube)
    THEN Err(500, "Error al subir archivo", ds4)
    ELSE Resultado(Resp("actualizar_proyecto", 200, "", proyecto_id),
                   [proyectos EXCEPT ![proyecto_id] = f4], ds4)

\* POST /proyectos/{proyecto_id}/evidencias
crear_evidencia(current_user, proyecto_id, titulo, archivo, sube) ==
    LET Err(st, det, ds) ==
            Resultado(Resp("crear_evidencia", st, det, 0), evidencias, ds)
        ds0 == DriveAlEntrar
        ds1 == is_configured(ds0)
        ds2 == upload_file(ds1, sube)
        id == seq["evidencias"]
        nueva_evidencia ==
            [proyecto_id |-> proyecto_id, titulo |-> titulo,
             drive_file_id |-> ds1.next,
             tamano_bytes |-> archivo.size,
             tipo_archivo |-> ALLOWED_MIME_TYPES_proyectos[archivo.content_type],
             subido_por |-> current_user]
    IN
    IF proyecto_id \notin DOMAIN proyectos
    THEN Err(404, "Proyecto no encontrado", ds0)
    ELSE IF proyectos[proyecto_id].docente_id # current_user
    THEN Err(403, "Solo el docente dueno puede agregar evidencias", ds0)
    ELSE IF ~EstaConfigurado
    THEN Err(503, "Google Drive no esta configurado", ds1)
    ELSE IF archivo.content_type \notin DOMAIN ALLOWED_MIME_TYPES_proyectos
    THEN Err(400, "Tipo de archivo no permitido", ds1)
    ELSE IF archivo.size > MAX_FILE_SIZE
    THEN Err(400, "El archivo excede el tamano maximo", ds1)
    ELSE IF archivo.size = 0
    THEN Err(400, "El archivo esta vacio", ds1)
    ELSE IF UploadLanza(sube)
    THEN Err(500, "Error al subir archivo a Google Drive", ds2)
    ELSE Resultado(Resp("crear_evidencia", 201, "", id),
                   evidencias @@ (id :> nueva_evidencia), ds2)

\* ----------------------------------------------------------- publicaciones
\* titulo stands for the scalar columns (titulo, contenido).
\* POST /publicaciones/
crear_publicacion(current_user, titulo, archivo, sube) ==
    LET Err(st, det, ds) ==
            Resultado(Resp("crear_publicacion", st, det, 0), publicaciones, ds)
        ds0 == DriveAlEntrar
        ds1 == is_configured(ds0)
        ds2 == upload_file(ds1, sube)
        id == seq["publicaciones"]
        nueva_publicacion(file_id, tipo, tamano) ==
            [autor_id |-> current_user, titulo |-> titulo,
             drive_file_id |-> file_id, tamano_bytes |-> tamano,
             tipo_archivo |-> tipo]
    IN
    IF Rol(current_user) \notin ROLES_PERMITIDOS
    THEN Err(403, "Solo coordinadores y rector pueden crear publicaciones", ds0)
    ELSE IF ~archivo.presente
    THEN Resultado(Resp("crear_publicacion", 201, "", id),
                   publicaciones @@ (id :> nueva_publicacion(0, Ninguno, 0)), ds0)
    ELSE IF ~EstaConfigurado
    THEN Err(503, "Google Drive no esta configurado", ds1)
    ELSE IF archivo.content_type \notin DOMAIN ALLOWED_MIME_TYPES_publicaciones
    THEN Err(400, "Tipo de archivo no permitido", ds1)
    ELSE IF archivo.size > MAX_FILE_SIZE
    THEN Err(400, "El archivo excede el tamano maximo", ds1)
    ELSE IF archivo.size = 0
    THEN Err(400, "El archivo esta vacio", ds1)
    ELSE IF UploadLanza(sube)
    THEN Err(500, "Error al subir archivo a Google Drive", ds2)
    ELSE Resultado(Resp("crear_publicacion", 201, "", id),
                   publicaciones @@ (id :> nueva_publicacion(ds1.next,
                       ALLOWED_MIME_TYPES_publicaciones[archivo.content_type],
                       archivo.size)), ds2)

\* PATCH /publicaciones/{publicacion_id}
actualizar_publicacion(current_user, publicacion_id, titulo, archivo, eliminar_archivo, borra, sube) ==
    LET Err(st, det, ds) ==
            Resultado(Resp("actualizar_publicacion", st, det, 0), publicaciones, ds)
        ds0 == DriveAlEntrar
        db == publicaciones[publicacion_id]
        f1 == IF titulo # Ninguno THEN [db EXCEPT !.titulo = titulo] ELSE db
        elimina == eliminar_archivo /\ f1.drive_file_id # 0
        ds1 == IF elimina
               THEN IF EstaConfigurado
                    THEN delete_file(is_configured(ds0), f1.drive_file_id, borra)
                    ELSE is_configured(ds0)
               ELSE ds0
        f2 == IF elimina
              THEN [f1 EXCEPT !.drive_file_id = 0, !.tamano_bytes = 0,
                              !.tipo_archivo = Ninguno]
              ELSE f1
        ds2 == is_configured(ds1)
        ds3 == IF f2.drive_file_id # 0 THEN delete_file(ds2, f2.drive_file_id, borra)
               ELSE ds2
        ds4 == upload_file(ds3, sube)
        f3 == [f2 EXCEPT !.drive_file_id = ds3.next,
                         !.tamano_bytes = archivo.size,
                         !.tipo_archivo =
                             ALLOWED_MIME_TYPES_publicaciones[archivo.content_type]]
    IN
    IF publicacion_id \notin DOMAIN publicaciones
    THEN Err(404, "Publicacion no encontrada", ds0)
    ELSE IF db.autor_id # current_user
    THEN Err(403, "Solo el autor puede actualizar", ds0)
    ELSE IF ~archivo.presente
    THEN Resultado(Resp("actualizar_publicacion", 200, "", publicacion_id),
                   [publicaciones EXCEPT ![publicacion_id] = f2], ds1)
    ELSE IF ~EstaConfigurado
    THEN Err(503, "Google Drive no esta configurado", ds2)
    ELSE IF archivo.content_type \notin DOMAIN ALLOWED_MIME_TYPES_publicaciones
    THEN Err(400, "Tipo de archivo no permitido", ds2)
    ELSE IF archivo.size > MAX_FILE_SIZE
    THEN Err(400, "El archivo excede el tamano maximo", ds2)
    ELSE IF UploadLanza(sube)
    THEN Err(500, "Error al subir archivo", ds4)
    ELSE Resultado(Resp("actualizar_publicacion", 200, "", publicacion_id),
                   [publicaciones EXCEPT ![publicacion_id] = f3], ds4)

\* ------------------------------------------------------------ observadores
\* fortalezas stands for the three text columns (fortalezas, dificultades,
\* compromisos); Ninguno is None.
Textos == {"f1", "f2"}

\* POST /observadores/ ; `periodo_activo` is the row the active-period query
\* returned (0: None).  The CHECK (periodo BETWEEN 1 AND 4) and the foreign
\* key of estudiante_id are enforced at the commit (IntegrityError, 500).
create_observador(current_user, estudiante_id, fortalezas, periodo_activo) ==
    LET Err(st, det) ==
            [resp |-> Resp("create_observador", st, det, 0), filas |-> observadores]
        numero_periodo_activo == int(periodos[periodo_activo].nombre)
        existe == {o \in DOMAIN observadores :
                      /\ observadores[o].estudiante_id = estudiante_id
                      /\ observadores[o].docente_id = current_user
                      /\ observadores[o].periodo = numero_periodo_activo}
        id == seq["observadores"]
        nuevo_observador ==
            [estudiante_id |-> estudiante_id, docente_id |-> current_user,
             periodo |-> numero_periodo_activo, fortalezas |-> fortalezas]
    IN
    IF periodo_activo = 0
    THEN Err(400, "No hay ningun periodo academico activo")
    ELSE IF IntLanza(periodos[periodo_activo].nombre)
    THEN Err(500, "Error de configuracion: el nombre del periodo activo no es un numero valido")
    ELSE IF existe # {}
    THEN Err(400, "Ya existe una observacion tuya para este estudiante")
    ELSE IF estudiante_id \notin Estudiantes \/ numero_periodo_activo \notin 1..4
    THEN Err(500, "IntegrityError")
    ELSE [resp |-> Resp("create_observador", 201, "", id),
          filas |-> observadores @@ (id :> nuevo_observador)]

\* observacion_db.docente_id != current_user.id and current_user.rol == 'docente'
NoEsAutorYEsDocente(fila, current_user) ==
    fila.docente_id # current_user /\ Rol(current_user) = "docente"

\* PUT /observadores/{id}
update_observador(current_user, id, fortalezas) ==
    LET Err(st, det) ==
            [resp |-> Resp("update_observador", st, det, 0), filas |-> observadores]
        observacion_db == observadores[id]
    IN
    IF id \notin DOMAIN observadores
    THEN Err(404, "Observacion no encontrada")
    ELSE IF NoEsAutorYEsDocente(observacion_db, current_user)
    THEN Err(403, "No tienes permiso para editar esta observacion")
    ELSE [resp |-> Resp("update_observador", 200, "", id),
          filas |-> IF fortalezas # Ninguno
                    THEN [observadores EXCEPT ![id].fortalezas = fortalezas]
                    ELSE observadores]

\* DELETE /observadores/{id}
delete_observador(current_user, id) ==
    LET Err(st, det) ==
            [resp |-> Resp("delete_observador", st, det, 0), filas |-> observadores]
    IN
    IF id \notin DOMAIN observadores
    THEN Err(404, "Observacion no encontrada")
    ELSE IF NoEsAutorYEsDocente(observadores[id], current_user)
    THEN Err(403, "No tienes permiso para eliminar esta observacion")
    ELSE [resp |-> Resp("delete_observador", 204, "", id),
          filas |-> [i \in DOMAIN observadores \ {id} |-> observadores[i]]]

\* ------------------------------------------------------------------- Spec
\* The state after create_tables(): the seeded periods, empty tables, an
\* empty Drive folder; no request has been answered.
InitTablas ==
    /\ planeaciones = << >>
    /\ proyectos = << >>
    /\ evidencias = << >>
    /\ publicaciones = << >>
    /\ observadores = << >>
    /\ comentarios = << >>
    /\ comentarios_proyecto = << >>
    /\ seq = [t \in {"planeaciones", "proyectos", "evidencias", "publicaciones",
                     "observadores", "comentarios", "comentarios_proyecto",
                     "destacadas", "cronogramas", "actividades",
                     "evidencias_actividad"} |-> 1]
    /\ destacadas = << >>
    /\ cronogramas = << >>
    /\ actividades = << >>
    /\ evidencias_actividad = << >>
    /\ tokens = {}
    /\ drive = {}
    /\ nextFileId = 1
    /\ driveLog = << >>
    /\ resp = NoResp
    /\ enVuelo = << >>
    /\ users = [u \in Usuarios |-> [rol |-> Rol(u), sede_id |-> SedeId(u), activo |-> TRUE]]
    /\ sedes = (1 :> [nombre |-> "n1"])
    /\ areas = << >>
    /\ seqAdmin = [users |-> 5, sedes |-> 2, areas |-> 1]

Init ==
    /\ periodos = crear_periodos_iniciales
    /\ InitTablas
    /\ driveConfigurado = TRUE

UpdatePeriodo ==
    /\ \E u \in Usuarios, p \in 1..(NumPeriodos + 1), d \in PeriodoUpdate :
        \E o \in {update_periodo(u, p, d)} :
        /\ periodos' = o.periodos
        /\ resp' = o.resp
    /\ driveLog' = << >>
    /\ UNCHANGED <<admin, otras, enVuelo, tablas, drive, nextFileId, driveConfigurado>>

GetPeriodoActivo ==
    /\ resp' \in get_periodo_activo(periodos)
    /\ driveLog' = << >>
    /\ UNCHANGED <<admin, otras, enVuelo, periodos, tablas, drive, nextFileId, driveConfigurado>>

\* The period manager alone: requests are executed one after the other.
Next == UpdatePeriodo \/ GetPeriodoActivo

Spec == Init /\ [][Next]_vars

\* ------------------------------------------------------------ SpecActivo
\* The period flag and the two handlers that read it.
SeqTras(t, filas) ==
    seq' = [seq EXCEPT ![t] = IF @ \in DOMAIN filas THEN @ + 1 ELSE @]
DriveTras(ds) ==
    /\ drive' = ds.objs
    /\ nextFileId' = ds.next
    /\ driveLog' = ds.log

\* the rows created so far, over all tables
FilasCreadas ==
    (seq["planeaciones"] - 1) + (seq["proyectos"] - 1) + (seq["evidencias"] - 1)
    + (seq["publicaciones"] - 1) + (seq["observadores"] - 1)

\* the handlers of one kind of resource touch no table of another kind: a run
\* creates rows of one kind only
SoloTablas(ts) == \A t \in DOMAIN seq \ ts : seq[t] = 1

\* the callers of the requests that are run: a teacher and an administrator
Solicitantes == {1, 3}
\* update_periodo requests that only send activo
SoloActivo == {d \in PeriodoUpdate : d.campos = {"activo"} /\ d.activo # "None"}

\* the files of the requests that are run: a pdf of each boundary size and a
\* file of a type no handler allows
ArchivosUsados ==
    {Archivo(MimePdf, 0), Archivo(MimePdf, MAX_FILE_SIZE),
     Archivo(MimePdf, MAX_FILE_SIZE + 1), Archivo(MimeTxt, MAX_FILE_SIZE)}

CambiarActivo ==
    /\ \E u \in Solicitantes, p \in {1, 2}, d \in SoloActivo :
        \E o \in {update_periodo(u, p, d)} :
        /\ periodos' = o.periodos
        /\ resp' = o.resp
    /\ driveLog' = << >>
    /\ UNCHANGED <<admin, otras, enVuelo, tablas, drive, nextFileId, driveConfigurado>>

CrearPlaneacion ==
    /\ SoloTablas({"planeaciones", "comentarios"})
    /\ FilasCreadas < MaxFilas
    /\ nextFileId <= MaxArchivos
    /\ \E u \in Solicitantes, a \in {1, 2}, f \in ArchivosUsados,
          p \in First(PeriodosActivos), sube \in BOOLEAN, confirma \in BOOLEAN :
        \E o \in {db_commit(crear_planeacion(u, a, "t1", f, p, sube), planeaciones, confirma)} :
        /\ planeaciones' = o.filas
        /\ SeqTras("planeaciones", o.filas)
        /\ DriveTras(o.ds)
        /\ resp' = o.resp
    /\ UNCHANGED <<admin, otras, enVuelo, comentarios, comentarios_proyecto, periodos, proyectos, evidencias, publicaciones, observadores,
                   driveConfigurado>>

CreateObservador ==
    /\ SoloTablas({"observadores"})
    /\ FilasCreadas < MaxFilas
    /\ \E u \in Solicitantes, e \in {1, 2}, p \in First(PeriodosActivos) :
        \E o \in {create_observador(u, e, "f1", p)} :
        /\ observadores' = o.filas
        /\ SeqTras("observadores", o.filas)
        /\ resp' = o.resp
    /\ driveLog' = << >>
    /\ UNCHANGED <<admin, otras, enVuelo, comentarios, comentarios_proyecto, periodos, planeaciones, proyectos, evidencias, publicaciones,
                   drive, nextFileId, driveConfigurado>>

InitActivo ==
    /\ periodos = crear_periodos_iniciales
    /\ InitTablas
    /\ driveConfigurado \in BOOLEAN
NextActivo == CambiarActivo \/ CrearPlaneacion \/ CreateObservador
SpecActivo == InitActivo /\ [][NextActivo]_vars

\* ---------------------------------------------------------- SpecArchivos
\* The handlers that create or replace an attachment.  An administrator has
\* activated period 1 (update_periodo(3, 1, activo=True) on the seeded table).
\* the outcomes of the two remote calls: both work, or one of them fails
Remotos ==
    {[borra |-> TRUE, sube |-> TRUE], [borra |-> FALSE, sube |-> TRUE],
     [borra |-> TRUE, sube |-> FALSE]}
\* the scalar fields of the project updates that are run
CambiosProyecto ==
    {[titulo |-> Ninguno, estado |-> Ninguno], [titulo |-> "t2", estado |-> Ninguno],
     [titulo |-> Ninguno, estado |-> "archivado"]}

ActualizarPlaneacion ==
    /\ nextFileId <= MaxArchivos
    /\ \E u \in Solicitantes, id \in DOMAIN planeaciones, t \in {Ninguno, "t2"},
          f \in ArchivosUsados \cup {NoArchivo}, r \in Remotos :
        \E o \in {actualizar_planeacion(u, id, t, 0, 0, f, r.borra, r.sube)} :
        /\ planeaciones' = o.filas
        /\ DriveTras(o.ds)
        /\ resp' = o.resp
    /\ UNCHANGED <<admin, otras, enVuelo, comentarios, comentarios_proyecto, periodos, proyectos, evidencias, publicaciones, observadores,
                   seq, driveConfigurado>>

CrearProyecto ==
    /\ SoloTablas({"proyectos", "evidencias", "comentarios_proyecto"})
    /\ FilasCreadas < MaxFilas
    /\ nextFileId <= MaxArchivos
    /\ \E u \in Solicitantes, f \in ArchivosUsados \cup {NoArchivo}, sube \in BOOLEAN, confirma \in BOOLEAN :
        \E o \in {db_commit(crear_proyecto(u, "t1", f, sube), proyectos, confirma)} :
        /\ proyectos' = o.filas
        /\ SeqTras("proyectos", o.filas)
        /\ DriveTras(o.ds)
        /\ resp' = o.resp
    /\ UNCHANGED <<admin, otras, enVuelo, comentarios, comentarios_proyecto, periodos, planeaciones, evidencias, publicaciones, observadores,
                   driveConfigurado>>

ActualizarProyecto ==
    /\ nextFileId <= MaxArchivos
    /\ \E u \in Solicitantes, id \in DOMAIN proyectos, c \in CambiosProyecto, f \in ArchivosUsados \cup {NoArchivo},
          eliminar_archivo \in BOOLEAN, r \in Remotos :
        \E o \in {actualizar_proyecto(u, id, c.titulo, c.estado, f, eliminar_archivo, r.borra, r.sube)} :
        /\ proyectos' = o.filas
        /\ DriveTras(o.ds)
        /\ resp' = o.resp
    /\ UNCHANGED <<admin, otras, enVuelo, comentarios, comentarios_proyecto, periodos, planeaciones, evidencias, publicaciones, observadores,
                   seq, driveConfigurado>>

CrearEvidencia ==
    /\ SoloTablas({"proyectos", "evidencias", "comentarios_proyecto"})
    /\ FilasCreadas < MaxFilas
    /\ nextFileId <= MaxArchivos
    /\ \E u \in Solicitantes, pr \in 1..MaxFilas, f \in ArchivosUsados, sube \in BOOLEAN, confirma \in BOOLEAN :
        \E o \in {db_commit(crear_evidencia(u, pr, "t1", f, sube), evidencias, confirma)} :
        /\ evidencias' = o.filas
        /\ SeqTras("evidencias", o.filas)
        /\ DriveTras(o.ds)
        /\ resp' = o.resp
    /\ UNCHANGED <<admin, otras, enVuelo, comentarios, comentarios_proyecto, periodos, planeaciones, proyectos, publicaciones, observadores,
                   driveConfigurado>>

CrearPublicacion ==
    /\ SoloTablas({"publicaciones"})
    /\ FilasCreadas < MaxFilas
    /\ nextFileId <= MaxArchivos
    /\ \E u \in Solicitantes, f \in ArchivosUsados \cup {NoArchivo}, sube \in BOOLEAN, confirma \in BOOLEAN :
        \E o \in {db_commit(crear_publicacion(u, "t1", f, sube), publicaciones, confirma)} :
        /\ publicaciones' = o.filas
        /\ SeqTras("publicaciones", o.filas)
        /\ DriveTras(o.ds)
        /\ resp' = o.resp
    /\ UNCHANGED <<admin, otras, enVuelo, comentarios, comentarios_proyecto, periodos, planeaciones, proyectos, evidencias, observadores,
                   driveConfigurado>>

ActualizarPublicacion ==
    /\ nextFileId <= MaxArchivos
    /\ \E u \in Solicitantes, id \in DOMAIN publicaciones, t \in {Ninguno},
          f \in ArchivosUsados \cup {NoArchivo}, eliminar_archivo \in BOOLEAN,
          r \in Remotos :
        \E o \in {actualizar_publicacion(u, id, t, f, eliminar_archivo, r.borra, r.sube)} :
        /\ publicaciones' = o.filas
        /\ DriveTras(o.ds)
        /\ resp' = o.resp
    /\ UNCHANGED <<admin, otras, enVuelo, comentarios, comentarios_proyecto, periodos, planeaciones, proyectos, evidencias, observadores,
                   seq, driveConfigurado>>

InitArchivos ==
    /\ periodos = [crear_periodos_iniciales EXCEPT ![1].activo = TRUE]
    /\ InitTablas
    /\ driveConfigurado \in BOOLEAN
NextArchivos ==
    \/ CrearPlaneacion \/ ActualizarPlaneacion
    \/ CrearProyecto \/ ActualizarProyecto \/ CrearEvidencia
    \/ CrearPublicacion \/ ActualizarPublicacion
SpecArchivos == InitArchivos /\ [][NextArchivos]_vars

\* ---------------------------------------------------------------- SpecConc
\* update_periodo when requests overlap.  Each request has its own session
\* (get_db); the query for another active period and the commit are separate
\* statements, the handler takes no lock and table periodos has no unique
\* constraint on activo, so the statements of two requests interleave freely.
MaxPeticiones == 2

\* a request enters: the role check and the lookup of the row
Recibir ==
    /\ Len(enVuelo) < MaxPeticiones
    /\ \E u \in Usuarios, p \in 1..(NumPeriodos + 1), d \in SoloActivo :
        LET pc == IF ~EsAdmin(u) THEN "403"
                  ELSE IF p \notin DOMAIN periodos THEN "404"
                  ELSE "consulta"
        IN enVuelo' = Append(enVuelo,
                             [current_user |-> u, periodo_id |-> p, datos |-> d,
                              pc |-> pc])
    /\ UNCHANGED <<admin, otras, periodos, tablas, remoto, resp>>

\* if datos.get('activo') == True: the query, and the raise when it finds a row
Consultar ==
    \E r \in DOMAIN enVuelo :
        /\ enVuelo[r].pc = "consulta"
        /\ LET otro == /\ ActivaPeriodo(enVuelo[r].datos)
                       /\ OtroPeriodoActivo(enVuelo[r].periodo_id) # {}
           IN /\ enVuelo' = [enVuelo EXCEPT ![r].pc = IF otro THEN "400" ELSE "commit"]
              /\ resp' = IF otro
                         THEN Resp("update_periodo", 400, "Ya existe un periodo activo", 0)
                         ELSE resp
        /\ UNCHANGED <<admin, otras, periodos, tablas, remoto>>

\* the setattr loop and db.commit()
Confirmar ==
    \E r \in DOMAIN enVuelo :
        /\ enVuelo[r].pc = "commit"
        /\ IF CommitPeriodoFalla(enVuelo[r].datos)
           THEN /\ enVuelo' = [enVuelo EXCEPT ![r].pc = "500"]
                /\ periodos' = periodos
                /\ resp' = Resp("update_periodo", 500, "IntegrityError", 0)
           ELSE /\ enVuelo' = [enVuelo EXCEPT ![r].pc = "200"]
                /\ periodos' = [periodos EXCEPT ![enVuelo[r].periodo_id] =
                                                    SetAttrsPeriodo(@, enVuelo[r].datos)]
                /\ resp' = Resp("update_periodo", 200, "", enVuelo[r].periodo_id)
        /\ UNCHANGED <<admin, otras, tablas, remoto>>

\* the requests that have been answered
Respondidas == {r \in DOMAIN enVuelo : enVuelo[r].pc \notin {"consulta", "commit"}}

NextConc == Recibir \/ Consultar \/ Confirmar
SpecConc == Init /\ [][NextConc]_vars

\* --------------------------------------------------------------- deletes
\* the table without the rows whose ids are in `ids` (db.delete + commit)
Sin(tabla, ids) == [i \in DOMAIN tabla \ ids |-> tabla[i]]

\* if <row>.drive_file_id and drive_service.is_configured():
\*     try: drive_service.delete_file(<row>.drive_file_id)
\*     except Exception: pass
\* `and` does not call is_configured when the row has no object
BorradoTolerante(ds, file_id, borra) ==
    IF file_id = 0 THEN ds
    ELSE IF EstaConfigurado THEN delete_file(is_configured(ds), file_id, borra)
    ELSE is_configured(ds)

\* Planeacion.comentarios is the backref of Comentario.planeacion, declared
\* without a delete cascade: on db.delete(planeacion) the unit of work sets
\* planeacion_id of these rows to NULL, a column declared nullable=False
HijosSinCascada(planeacion_id) ==
    {c \in DOMAIN comentarios : comentarios[c].planeacion_id = planeacion_id}

\* DELETE /planeaciones/{planeacion_id} ; `borra` is the outcome of the
\* remote delete.  With comments on the plan the flush of db.commit() raises
\* IntegrityError: the answer is 500 and nothing is committed.
eliminar_planeacion(current_user, planeacion_id, borra) ==
    LET Err(st, det, ds) ==
            Resultado(Resp("eliminar_planeacion", st, det, 0), planeaciones, ds)
        ds0 == DriveAlEntrar
        planeacion_db == planeaciones[planeacion_id]
        es_dueno == planeacion_db.docente_id = current_user
        es_admin == Rol(current_user) \in {"coordinador", "rector"}
        ds1 == BorradoTolerante(ds0, planeacion_db.drive_file_id, borra)
    IN
    IF planeacion_id \notin DOMAIN planeaciones
    THEN Err(404, "Planeacion no encontrada", ds0)
    ELSE IF ~es_dueno /\ ~es_admin
    THEN Err(403, "No tiene permisos para eliminar esta planeacion", ds0)
    ELSE IF HijosSinCascada(planeacion_id) # {}
    THEN Err(500, "IntegrityError", ds1)
    ELSE Resultado(Resp("eliminar_planeacion", 200, "", planeacion_id),
                   Sin(planeaciones, {planeacion_id}), ds1)

\* DELETE /publicaciones/{publicacion_id}
eliminar_publicacion(current_user, publicacion_id, borra) ==
    LET Err(st, det, ds) ==
            Resultado(Resp("eliminar_publicacion", st, det, 0), publicaciones, ds)
        ds0 == DriveAlEntrar
        publicacion_db == publicaciones[publicacion_id]
        ds1 == BorradoTolerante(ds0, publicacion_db.drive_file_id, borra)
    IN
    IF publicacion_id \notin DOMAIN publicaciones
    THEN Err(404, "Publicacion no encontrada", ds0)
    ELSE IF publicacion_db.autor_id # current_user
    THEN Err(403, "Solo el autor puede eliminar esta publicacion", ds0)
    ELSE Resultado(Resp("eliminar_publicacion", 200, "", publicacion_id),
                   Sin(publicaciones, {publicacion_id}), ds1)

\* the outcome of a handler of the project family: the response, the three
\* tables after the request, storage after the request, and the steps of the
\* handler in the order it ran them (storage calls, then db.delete, db.commit)
ResultadoProyecto(r, ps, es, cs, ds, pasos) ==
    [resp |-> r, proyectos |-> ps, evidencias |-> es,
     comentarios_proyecto |-> cs, ds |-> ds, pasos |-> pasos]

\* db.query(EvidenciaProyectoModel).filter(proyecto_id == proyecto_id).all()
EvidenciasDe(proyecto_id) ==
    {e \in DOMAIN evidencias : evidencias[e].proyecto_id = proyecto_id}
\* Proyecto.evidencias, cascade="all, delete-orphan": the evidence rows that
\* db.delete(proyecto) deletes with the project
EvidenciasEnCascada(proyecto_id) ==
    {e \in DOMAIN evidencias : evidencias[e].proyecto_id = proyecto_id}
\* the relationships delete no comment
NingunComentario(proyecto_id, es) == {}

\* the rows of comentarios_proyecto that the cascades of Proyecto.comentarios
\* and EvidenciaProyecto.comentarios delete with project `proyecto_id` and
\* with the evidences `es`
ComentariosDe(proyecto_id, es) ==
    {c \in DOMAIN comentarios_proyecto :
        \/ comentarios_proyecto[c].proyecto_id = proyecto_id /\ proyecto_id # 0
        \/ comentarios_proyecto[c].evidencia_id \in es}

\* for evidencia in evidencias: the best-effort delete of each one's object;
\* `borrados` are the objects whose remote delete succeeds
RECURSIVE delete_evidencias(_, _, _)
delete_evidencias(ds, es, borrados) ==
    IF es = {} THEN ds
    ELSE LET e == CHOOSE x \in es : \A y \in es : x <= y
             fid == evidencias[e].drive_file_id
         IN delete_evidencias(BorradoTolerante(ds, fid, fid \in borrados),
                              es \ {e}, borrados)

\* DELETE /proyectos/{proyecto_id}
eliminar_proyecto(current_user, proyecto_id, borrados) ==
    LET Err(st, det) ==
            ResultadoProyecto(Resp("eliminar_proyecto", st, det, 0), proyectos,
                              evidencias, comentarios_proyecto, DriveAlEntrar, << >>)
        proyecto_db == proyectos[proyecto_id]
        es_dueno == proyecto_db.docente_id = current_user
        es_admin == Rol(current_user) \in ROLES_PERMITIDOS
        ds1 == BorradoTolerante(DriveAlEntrar, proyecto_db.drive_file_id,
                                proyecto_db.drive_file_id \in borrados)
        es == EvidenciasDe(proyecto_id)
        ds2 == delete_evidencias(ds1, es, borrados)
    IN
    IF proyecto_id \notin DOMAIN proyectos
    THEN Err(404, "Proyecto no encontrado")
    ELSE IF ~es_dueno /\ ~es_admin
    THEN Err(403, "No tiene permisos para eliminar este proyecto")
    ELSE ResultadoProyecto(Resp("eliminar_proyecto", 200, "", proyecto_id),
                           Sin(proyectos, {proyecto_id}),
                           Sin(evidencias, EvidenciasEnCascada(proyecto_id)),
                           Sin(comentarios_proyecto,
                               ComentariosDe(proyecto_id,
                                             EvidenciasEnCascada(proyecto_id))),
                           ds2, ds2.log \o <<"db.delete", "db.commit">>)

\* DELETE /proyectos/{proyecto_id}/evidencias/{evidencia_id}
eliminar_evidencia(current_user, proyecto_id, evidencia_id, borra) ==
    LET Err(st, det) ==
            ResultadoProyecto(Resp("eliminar_evidencia", st, det, 0), proyectos,
                              evidencias, comentarios_proyecto, DriveAlEntrar, << >>)
        evidencia == evidencias[evidencia_id]
        proyecto == proyectos[proyecto_id]
        es_dueno == proyecto.docente_id = current_user
        es_admin == Rol(current_user) \in ROLES_PERMITIDOS
        ds1 == BorradoTolerante(DriveAlEntrar, evidencia.drive_file_id, borra)
    IN
    IF \/ evidencia_id \notin DOMAIN evidencias
       \/ evidencia.proyecto_id # proyecto_id
    THEN Err(404, "Evidencia no encontrada")
    ELSE IF ~es_dueno /\ ~es_admin
    THEN Err(403, "No tiene permisos para eliminar esta evidencia")
    ELSE ResultadoProyecto(Resp("eliminar_evidencia", 200, "", evidencia_id),
                           proyectos,
                           Sin(evidencias, {evidencia_id}),
                           Sin(comentarios_proyecto, ComentariosDe(0, {evidencia_id})),
                           ds1, ds1.log \o <<"db.delete", "db.commit">>)

\* -------------------------------------------------------------- comments
\* POST /comentarios/
crear_comentario(current_user, planeacion_id, contenido) ==
    LET Err(st, det) ==
            Resultado(Resp("crear_comentario", st, det, 0), comentarios, DriveAlEntrar)
        id == seq["comentarios"]
        nuevo_comentario ==
            [planeacion_id |-> planeacion_id, coordinador_id |-> current_user,
             contenido |-> contenido]
    IN
    IF Rol(current_user) \notin ROLES_PERMITIDOS
    THEN Err(403, "Solo coordinadores y rector pueden crear comentarios")
    ELSE IF planeacion_id \notin DOMAIN planeaciones
    THEN Err(404, "Planeacion no encontrada")
    ELSE Resultado(Resp("crear_comentario", 201, "", id),
                   comentarios @@ (id :> nuevo_comentario), DriveAlEntrar)

\* PATCH /comentarios/{comentario_id}
actualizar_comentario(current_user, comentario_id, contenido) ==
    LET Err(st, det) ==
            Resultado(Resp("actualizar_comentario", st, det, 0), comentarios,
                      DriveAlEntrar)
        comentario_db == comentarios[comentario_id]
    IN
    IF comentario_id \notin DOMAIN comentarios
    THEN Err(404, "Comentario no encontrado")
    ELSE IF comentario_db.coordinador_id # current_user
    THEN Err(403, "Solo el autor puede actualizar este comentario")
    ELSE Resultado(Resp("actualizar_comentario", 200, "", comentario_id),
                   [comentarios EXCEPT ![comentario_id].contenido = contenido],
                   DriveAlEntrar)

\* the check lets every caller through
CualquierUsuario(current_user, coordinador_id) == TRUE
\* es_autor or es_rector of the comment handlers
AutorORector(current_user, coordinador_id) ==
    coordinador_id = current_user \/ Rol(current_user) = "rector"

\* DELETE /comentarios/{comentario_id}
eliminar_comentario(current_user, comentario_id) ==
    LET Err(st, det) ==
            Resultado(Resp("eliminar_comentario", st, det, 0), comentarios,
                      DriveAlEntrar)
        comentario_db == comentarios[comentario_id]
    IN
    IF comentario_id \notin DOMAIN comentarios
    THEN Err(404, "Comentario no encontrado")
    ELSE IF ~AutorORector(current_user, comentario_db.coordinador_id)
    THEN Err(403, "No tiene permisos para eliminar este comentario")
    ELSE Resultado(Resp("eliminar_comentario", 200, "", comentario_id),
                   Sin(comentarios, {comentario_id}), DriveAlEntrar)

\* POST /proyectos/{proyecto_id}/comentarios ; evidencia_id = 0 stands for
\* None: the comment is on the project, otherwise on the evidence
crear_comentario_proyecto(current_user, proyecto_id, evidencia_id, contenido) ==
    LET Err(st, det) ==
            Resultado(Resp("crear_comentario_proyecto", st, det, 0),
                      comentarios_proyecto, DriveAlEntrar)
        id == seq["comentarios_proyecto"]
        nuevo_comentario ==
            IF evidencia_id # 0
            THEN [proyecto_id |-> 0, evidencia_id |-> evidencia_id,
                  coordinador_id |-> current_user, contenido |-> contenido]
            ELSE [proyecto_id |-> proyecto_id, evidencia_id |-> 0,
                  coordinador_id |-> current_user, contenido |-> contenido]
    IN
    IF Rol(current_user) \notin ROLES_PERMITIDOS
    THEN Err(403, "Solo coordinadores y rector pueden comentar proyectos")
    ELSE IF proyecto_id \notin DOMAIN proyectos
    THEN Err(404, "Proyecto no encontrado")
    ELSE IF /\ evidencia_id # 0
            /\ \/ evidencia_id \notin DOMAIN evidencias
               \/ evidencias[evidencia_id].proyecto_id # proyecto_id
    THEN Err(404, "Evidencia no encontrada en este proyecto")
    ELSE Resultado(Resp("crear_comentario_proyecto", 201, "", id),
                   comentarios_proyecto @@ (id :> nuevo_comentario), DriveAlEntrar)

\* PATCH /proyectos/comentarios/{comentario_id}
actualizar_comentario_proyecto(current_user, comentario_id, contenido) ==
    LET Err(st, det) ==
            Resultado(Resp("actualizar_comentario_proyecto", st, det, 0),
                      comentarios_proyecto, DriveAlEntrar)
        comentario == comentarios_proyecto[comentario_id]
    IN
    IF comentario_id \notin DOMAIN comentarios_proyecto
    THEN Err(404, "Comentario no encontrado")
    ELSE IF ~AutorORector(current_user, comentario.coordinador_id)
    THEN Err(403, "No tiene permisos para actualizar este comentario")
    ELSE Resultado(Resp("actualizar_comentario_proyecto", 200, "", comentario_id),
                   [comentarios_proyecto EXCEPT ![comentario_id].contenido = contenido],
                   DriveAlEntrar)

\* DELETE /proyectos/comentarios/{comentario_id}
eliminar_comentario_proyecto(current_user, comentario_id) ==
    LET Err(st, det) ==
            Resultado(Resp("eliminar_comentario_proyecto", st, det, 0),
                      comentarios_proyecto, DriveAlEntrar)
        comentario == comentarios_proyecto[comentario_id]
    IN
    IF comentario_id \notin DOMAIN comentarios_proyecto
    THEN Err(404, "Comentario no encontrado")
    ELSE IF ~AutorORector(current_user, comentario.coordinador_id)
    THEN Err(403, "No tiene permisos para eliminar este comentario")
    ELSE Resultado(Resp("eliminar_comentario_proyecto", 200, "", comentario_id),
                   Sin(comentarios_proyecto, {comentario_id}), DriveAlEntrar)

\* ------------------------------------------------------------- SpecCiclo
\* The whole life of the attachments and of the comments: the create and
\* replace requests of SpecArchivos, the delete requests, the comment
\* requests, and the restart of the service with other Drive credentials.
MaxComentarios == 2
EliminarPlaneacion ==
    /\ \E u \in Usuarios, id \in 1..MaxFilas, borra \in BOOLEAN :
        \E o \in {eliminar_planeacion(u, id, borra)} :
        /\ planeaciones' = o.filas
        /\ DriveTras(o.ds)
        /\ resp' = o.resp
    /\ UNCHANGED <<admin, otras, enVuelo, periodos, observadores, seq, driveConfigurado,
                   proyectos, evidencias, publicaciones, comentarios,
                   comentarios_proyecto>>

EliminarPublicacion ==
    /\ \E u \in Usuarios, id \in 1..MaxFilas, borra \in BOOLEAN :
        \E o \in {eliminar_publicacion(u, id, borra)} :
        /\ publicaciones' = o.filas
        /\ DriveTras(o.ds)
        /\ resp' = o.resp
    /\ UNCHANGED <<admin, otras, enVuelo, periodos, observadores, seq, driveConfigurado,
                   planeaciones, proyectos, evidencias, comentarios,
                   comentarios_proyecto>>

EliminarProyecto ==
    /\ \E u \in Usuarios, id \in 1..MaxFilas, borrados \in SUBSET drive :
        \E o \in {eliminar_proyecto(u, id, borrados)} :
        /\ proyectos' = o.proyectos
        /\ evidencias' = o.evidencias
        /\ comentarios_proyecto' = o.comentarios_proyecto
        /\ DriveTras(o.ds)
        /\ resp' = o.resp
    /\ UNCHANGED <<admin, otras, enVuelo, periodos, observadores, seq, driveConfigurado,
                   planeaciones, publicaciones, comentarios>>

EliminarEvidencia ==
    /\ \E u \in Usuarios, pr \in 1..MaxFilas, e \in 1..MaxFilas, borra \in BOOLEAN :
        \E o \in {eliminar_evidencia(u, pr, e, borra)} :
        /\ proyectos' = o.proyectos
        /\ evidencias' = o.evidencias
        /\ comentarios_proyecto' = o.comentarios_proyecto
        /\ DriveTras(o.ds)
        /\ resp' = o.resp
    /\ UNCHANGED <<admin, otras, enVuelo, periodos, observadores, seq, driveConfigurado,
                   planeaciones, publicaciones, comentarios>>

\* the contents that the updates of comments write (they are created "c1")
Contenidos == {"c2"}

CrearComentario ==
    /\ seq["comentarios"] <= MaxComentarios
    /\ \E u \in Solicitantes, p \in 1..MaxFilas :
        \E o \in {crear_comentario(u, p, "c1")} :
        /\ comentarios' = o.filas
        /\ SeqTras("comentarios", o.filas)
        /\ resp' = o.resp
    /\ driveLog' = << >>
    /\ UNCHANGED <<admin, otras, enVuelo, periodos, observadores, driveConfigurado, drive,
                   nextFileId, planeaciones, proyectos, evidencias,
                   publicaciones, comentarios_proyecto>>

ActualizarComentario ==
    /\ \E u \in Usuarios, c \in 1..MaxComentarios, t \in Contenidos :
        \E o \in {actualizar_comentario(u, c, t)} :
        /\ comentarios' = o.filas
        /\ resp' = o.resp
    /\ driveLog' = << >>
    /\ UNCHANGED <<admin, otras, enVuelo, periodos, observadores, seq, driveConfigurado, drive,
                   nextFileId, planeaciones, proyectos, evidencias,
                   publicaciones, comentarios_proyecto>>

EliminarComentario ==
    /\ \E u \in Usuarios, c \in 1..MaxComentarios :
        \E o \in {eliminar_comentario(u, c)} :
        /\ comentarios' = o.filas
        /\ resp' = o.resp
    /\ driveLog' = << >>
    /\ UNCHANGED <<admin, otras, enVuelo, periodos, observadores, seq, driveConfigurado, drive,
                   nextFileId, planeaciones, proyectos, evidencias,
                   publicaciones, comentarios_proyecto>>

CrearComentarioProyecto ==
    /\ seq["comentarios_proyecto"] <= MaxComentarios
    /\ \E u \in Solicitantes, pr \in 1..MaxFilas, e \in 0..MaxFilas :
        \E o \in {crear_comentario_proyecto(u, pr, e, "c1")} :
        /\ comentarios_proyecto' = o.filas
        /\ SeqTras("comentarios_proyecto", o.filas)
        /\ resp' = o.resp
    /\ driveLog' = << >>
    /\ UNCHANGED <<admin, otras, enVuelo, periodos, observadores, driveConfigurado, drive,
                   nextFileId, planeaciones, proyectos, evidencias,
                   publicaciones, comentarios>>

ActualizarComentarioProyecto ==
    /\ \E u \in Usuarios, c \in 1..MaxComentarios, t \in Contenidos :
        \E o \in {actualizar_comentario_proyecto(u, c, t)} :
        /\ comentarios_proyecto' = o.filas
        /\ resp' = o.resp
    /\ driveLog' = << >>
    /\ UNCHANGED <<admin, otras, enVuelo, periodos, observadores, seq, driveConfigurado, drive,
                   nextFileId, planeaciones, proyectos, evidencias,
                   publicaciones, comentarios>>

EliminarComentarioProyecto ==
    /\ \E u \in Usuarios, c \in 1..MaxComentarios :
        \E o \in {eliminar_comentario_proyecto(u, c)} :
        /\ comentarios_proyecto' = o.filas
        /\ resp' = o.resp
    /\ driveLog' = << >>
    /\ UNCHANGED <<admin, otras, enVuelo, periodos, observadores, seq, driveConfigurado, drive,
                   nextFileId, planeaciones, proyectos, evidencias,
                   publicaciones, comentarios>>

\* the service is restarted with other credentials in its environment:
\* GoogleDriveService() is built again and is_configured() changes
Reconfigurar ==
    /\ driveConfigurado' = ~driveConfigurado
    /\ UNCHANGED <<admin, otras, enVuelo, periodos, tablas, drive, nextFileId, driveLog, resp>>

NextCiclo ==
    \/ CrearPlaneacion \/ ActualizarPlaneacion \/ EliminarPlaneacion
    \/ CrearProyecto \/ ActualizarProyecto \/ EliminarProyecto
    \/ CrearEvidencia \/ EliminarEvidencia
    \/ CrearPublicacion \/ ActualizarPublicacion \/ EliminarPublicacion
    \/ Reconfigurar
SpecCiclo == InitArchivos /\ [][NextCiclo]_vars

\* ------------------------------------------------------- SpecComentarios
\* Lesson plans and projects with their comments: the parents are created,
\* commented by the administrators, and deleted.
NextComentarios ==
    \/ CrearPlaneacion \/ EliminarPlaneacion
    \/ CrearProyecto \/ CrearEvidencia \/ EliminarProyecto \/ EliminarEvidencia
    \/ CrearComentario \/ ActualizarComentario \/ EliminarComentario
    \/ CrearComentarioProyecto \/ ActualizarComentarioProyecto
    \/ EliminarComentarioProyecto
SpecComentarios == InitArchivos /\ [][NextComentarios]_vars

\* -------------------------------------------------------------- SpecAdmin
\* The handlers that create, update and delete users, sites and areas.  The
\* caller is a row of table users that Auth.get_current_user resolved; none
\* of these handlers reads current_user.
RolesValidos == {"docente", "coordinador", "rector"}
Nombres == {"n1", "n2"}

\* the outcome of an administrative handler: the response and the three
\* tables after the request
ResultadoAdmin(r, us, ss, ar) == [resp |-> r, users |-> us, sedes |-> ss, areas |-> ar]

\* POST /users/ ; sede_id = 0 stands for None.  The HTTPException raised in
\* the try block and the IntegrityError of the commit are both re-raised as
\* 400 by the except clause.
create_user(current_user, rol, sede_id, activo) ==
    LET Err(st, det) == ResultadoAdmin(Resp("create_user", st, det, 0), users, sedes, areas)
        id == seqAdmin.users
    IN
    IF rol = "docente" /\ sede_id = 0
    THEN Err(400, "El docente debe tener una sede asignada")
    ELSE IF rol \notin RolesValidos \/ (sede_id # 0 /\ sede_id \notin DOMAIN sedes)
    THEN Err(400, "IntegrityError")
    ELSE ResultadoAdmin(Resp("create_user", 200, "", id),
                        users @@ (id :> [rol |-> rol, sede_id |-> sede_id, activo |-> activo]),
                        sedes, areas)

\* PATCH /users/{id} ; `campos` are the fields the body sets
\* (model_dump(exclude_unset=True))
update_user(current_user, id, campos, rol, sede_id, activo) ==
    LET Err(st, det) == ResultadoAdmin(Resp("update_user", st, det, 0), users, sedes, areas)
        user_db == users[id]
        nuevo_rol == IF "rol" \in campos THEN rol ELSE user_db.rol
        nueva_sede_id == IF "sede_id" \in campos THEN sede_id ELSE user_db.sede_id
    IN
    IF id \notin DOMAIN users
    THEN Err(404, "User not found")
    ELSE IF nuevo_rol = "docente" /\ nueva_sede_id = 0
    THEN Err(400, "No se puede asignar rol de docente sin una sede")
    ELSE IF \/ nuevo_rol \notin RolesValidos
            \/ nueva_sede_id # 0 /\ nueva_sede_id \notin DOMAIN sedes
    THEN Err(500, "IntegrityError")
    ELSE ResultadoAdmin(Resp("update_user", 200, "", id),
                        [users EXCEPT ![id] =
                            [rol |-> nuevo_rol, sede_id |-> nueva_sede_id,
                             activo |-> IF "activo" \in campos THEN activo
                                        ELSE user_db.activo]],
                        sedes, areas)

\* DELETE /users/{id}
delete_user(current_user, id) ==
    IF id \notin DOMAIN users
    THEN ResultadoAdmin(Resp("delete_user", 404, "User not found", 0),
                        users, sedes, areas)
    ELSE ResultadoAdmin(Resp("delete_user", 200, "", id),
                        [i \in DOMAIN users \ {id} |-> users[i]], sedes, areas)

\* POST /sedes/
create_sede(current_user, nombre) ==
    ResultadoAdmin(Resp("create_sede", 200, "", seqAdmin.sedes), users,
                   sedes @@ (seqAdmin.sedes :> [nombre |-> nombre]), areas)

\* PATCH /sedes/{sede_id}
update_sedes(current_user, sede_id, nombre) ==
    IF sede_id \notin DOMAIN sedes
    THEN ResultadoAdmin(Resp("update_sedes", 404, "Sedes not found", 0),
                        users, sedes, areas)
    ELSE ResultadoAdmin(Resp("update_sedes", 200, "", sede_id), users,
                        [sedes EXCEPT ![sede_id].nombre = nombre], areas)

\* DELETE /sedes/{sede_id} ; users.sede_id is declared ondelete='SET NULL'
delete_sede(current_user, sede_id) ==
    IF sede_id \notin DOMAIN sedes
    THEN ResultadoAdmin(Resp("delete_sede", 404, "Sedes not found", 0),
                        users, sedes, areas)
    ELSE ResultadoAdmin(Resp("delete_sede", 200, "", sede_id),
                        [i \in DOMAIN users |->
                            IF users[i].sede_id = sede_id
                            THEN [users[i] EXCEPT !.sede_id = 0] ELSE users[i]],
                        [i \in DOMAIN sedes \ {sede_id} |-> sedes[i]], areas)

\* the other rows of areas that have name `nombre` (areas.nombre is unique)
AreasConNombre(nombre, salvo) ==
    {a \in DOMAIN areas \ {salvo} : areas[a].nombre = nombre}

\* POST /areas/
create_area(current_user, nombre) ==
    IF AreasConNombre(nombre, 0) # {}
    THEN ResultadoAdmin(Resp("create_area", 400, "Ya existe un area con ese nombre", 0),
                        users, sedes, areas)
    ELSE ResultadoAdmin(Resp("create_area", 201, "", seqAdmin.areas), users, sedes,
                        areas @@ (seqAdmin.areas :> [nombre |-> nombre]))

\* PATCH /areas/{area_id}
update_area(current_user, area_id, nombre) ==
    IF area_id \notin DOMAIN areas
    THEN ResultadoAdmin(Resp("update_area", 404, "Area no encontrada", 0),
                        users, sedes, areas)
    ELSE IF AreasConNombre(nombre, area_id) # {}
    THEN ResultadoAdmin(Resp("update_area", 500, "IntegrityError", 0),
                        users, sedes, areas)
    ELSE ResultadoAdmin(Resp("update_area", 200, "", area_id), users, sedes,
                        [areas EXCEPT ![area_id].nombre = nombre])

\* DELETE /areas/{area_id}
delete_area(current_user, area_id) ==
    IF area_id \notin DOMAIN areas
    THEN ResultadoAdmin(Resp("delete_area", 404, "Area no encontrada", 0),
                        users, sedes, areas)
    ELSE ResultadoAdmin(Resp("delete_area", 200, "", area_id), users, sedes,
                        [i \in DOMAIN areas \ {area_id} |-> areas[i]])

\* the rows created so far in the three tables
FilasAdmin == (seqAdmin.users - 5) + (seqAdmin.sedes - 2) + (seqAdmin.areas - 1)

\* the request with outcome `o` is answered and its tables are committed
AdminTras(o) ==
    /\ users' = o.users
    /\ sedes' = o.sedes
    /\ areas' = o.areas
    /\ seqAdmin' = [seqAdmin EXCEPT
                        !.users = IF @ \in DOMAIN o.users THEN @ + 1 ELSE @,
                        !.sedes = IF @ \in DOMAIN o.sedes THEN @ + 1 ELSE @,
                        !.areas = IF @ \in DOMAIN o.areas THEN @ + 1 ELSE @]
    /\ resp' = o.resp
    /\ UNCHANGED <<otras, enVuelo, periodos, tablas, remoto>>

\* the callers of the administrative requests that are run: a docente and a
\* coordinator, while their rows exist
SolicitantesAdmin == {2, 3} \cap DOMAIN users
\* the bodies of the update_user requests that are run
CambiosUsuario ==
    {[campos |-> {"rol"}, rol |-> "rector", sede_id |-> 0],
     [campos |-> {"sede_id"}, rol |-> "docente", sede_id |-> 1]}

CreateUser ==
    /\ FilasAdmin < MaxFilas
    /\ \E u \in SolicitantesAdmin, s \in {0, 1} :
        AdminTras(create_user(u, "docente", s, TRUE))
UpdateUser ==
    \E u \in SolicitantesAdmin, c \in CambiosUsuario :
        AdminTras(update_user(u, 2, c.campos, c.rol, c.sede_id, TRUE))
DeleteUser ==
    \E u \in SolicitantesAdmin : AdminTras(delete_user(u, 4))
CreateSede ==
    /\ FilasAdmin < MaxFilas
    /\ \E u \in SolicitantesAdmin : AdminTras(create_sede(u, "n2"))
UpdateSedes ==
    \E u \in SolicitantesAdmin : AdminTras(update_sedes(u, 1, "n2"))
DeleteSede ==
    \E u \in SolicitantesAdmin : AdminTras(delete_sede(u, 1))
CreateArea ==
    /\ FilasAdmin < MaxFilas
    /\ \E u \in SolicitantesAdmin, n \in Nombres : AdminTras(create_area(u, n))
UpdateArea ==
    \E u \in SolicitantesAdmin : AdminTras(update_area(u, 1, "n2"))
DeleteArea ==
    \E u \in SolicitantesAdmin : AdminTras(delete_area(u, 1))

NextAdmin ==
    \/ CreateUser \/ UpdateUser \/ DeleteUser
    \/ CreateSede \/ UpdateSedes \/ DeleteSede
    \/ CreateArea \/ UpdateArea \/ DeleteArea
SpecAdmin == Init /\ [][NextAdmin]_vars

\* --------------------------------------------------------- SpecObservador
\* Observations of students.  Table periodos holds the seeded rows, or rows
\* whose nombre was written by hand (crear_periodos_iniciales seeds nothing
\* when the table has rows; nombre is String(10), unique, and no endpoint
\* writes it).
PeriodosRenombrados ==
    {crear_periodos_iniciales,
     [crear_periodos_iniciales EXCEPT ![1].nombre = <<" ", "2">>, ![2].nombre = <<"I">>],
     [crear_periodos_iniciales EXCEPT ![1].nombre = <<"1", "0">>, ![2].nombre = <<"+", "1">>]}

UpdateObservador ==
    /\ \E u \in {1, 2, 3}, id \in DOMAIN observadores, t \in {Ninguno, "f2"} :
        \E o \in {update_observador(u, id, t)} :
        /\ observadores' = o.filas
        /\ resp' = o.resp
    /\ driveLog' = << >>
    /\ UNCHANGED <<admin, otras, enVuelo, comentarios, comentarios_proyecto, periodos, planeaciones, proyectos, evidencias, publicaciones,
                   seq, drive, nextFileId, driveConfigurado>>

DeleteObservador ==
    /\ \E u \in {1, 2, 3}, id \in DOMAIN observadores :
        \E o \in {delete_observador(u, id)} :
        /\ observadores' = o.filas
        /\ resp' = o.resp
    /\ driveLog' = << >>
    /\ UNCHANGED <<admin, otras, enVuelo, comentarios, comentarios_proyecto, periodos, planeaciones, proyectos, evidencias, publicaciones,
                   seq, drive, nextFileId, driveConfigurado>>

InitObservador ==
    /\ periodos \in PeriodosRenombrados
    /\ InitTablas
    /\ driveConfigurado = TRUE
NextObservador ==
    CambiarActivo \/ CreateObservador \/ UpdateObservador \/ DeleteObservador
SpecObservador == InitObservador /\ [][NextObservador]_vars

\* --------------------------------------------------------- SpecDestacadas
\* The featured lesson plans.  Each handler is given as a whole (the outcome
\* of a request that runs alone) and as the two steps of its session: the
\* queries, and the commit.  Requests overlap between the two steps.
\* planeacion_id is unique=True: the INSERT of a second row for the same plan
\* raises IntegrityError
SinUnique(tabla, planeacion_id) == FALSE
ViolaUnique(tabla, planeacion_id) ==
    \E d \in DOMAIN tabla : tabla[d].planeacion_id = planeacion_id

\* POST /planeaciones-destacadas/
destacar_planeacion(current_user, planeacion_id, razon) ==
    LET Err(st, det) ==
            [resp |-> Resp("destacar_planeacion", st, det, 0), filas |-> destacadas]
        existente == {d \in DOMAIN destacadas :
                         destacadas[d].planeacion_id = planeacion_id}
        id == seq["destacadas"]
        nueva_destacada ==
            [planeacion_id |-> planeacion_id, coordinador_id |-> current_user,
             razon |-> razon, activa |-> TRUE, visualizaciones |-> 0]
    IN
    IF Rol(current_user) \notin ROLES_PERMITIDOS
    THEN Err(403, "Solo coordinadores y rector pueden destacar planeaciones")
    ELSE IF planeacion_id \notin DOMAIN planeaciones
    THEN Err(404, "Planeacion no encontrada")
    ELSE IF existente # {}
    THEN Err(400, "Esta planeacion ya esta destacada")
    ELSE [resp |-> Resp("destacar_planeacion", 201, "", id),
          filas |-> destacadas @@ (id :> nueva_destacada)]

\* PATCH /planeaciones-destacadas/{destacada_id}/visualizaciones ; `leido` is
\* the value of visualizaciones the session loaded: `+= 1` is computed on it
\* and the UPDATE writes the result
incrementar_visualizaciones(current_user, destacada_id, leido) ==
    IF destacada_id \notin DOMAIN destacadas
    THEN [resp |-> Resp("incrementar_visualizaciones", 404,
                        "Planeacion destacada no encontrada", 0),
          filas |-> destacadas]
    ELSE [resp |-> Resp("incrementar_visualizaciones", 200, "", destacada_id),
          filas |-> [destacadas EXCEPT ![destacada_id].visualizaciones = leido + 1]]

\* DELETE /planeaciones-destacadas/{destacada_id}
eliminar_planeacion_destacada(current_user, destacada_id) ==
    LET Err(st, det) ==
            [resp |-> Resp("eliminar_planeacion_destacada", st, det, 0),
             filas |-> destacadas]
        es_autor == destacadas[destacada_id].coordinador_id = current_user
        es_rector == Rol(current_user) = "rector"
    IN
    IF destacada_id \notin DOMAIN destacadas
    THEN Err(404, "Planeacion destacada no encontrada")
    ELSE IF ~es_autor /\ ~es_rector
    THEN Err(403, "No tiene permisos para eliminar esta planeacion destacada")
    ELSE [resp |-> Resp("eliminar_planeacion_destacada", 200, "", destacada_id),
          filas |-> [d \in DOMAIN destacadas \ {destacada_id} |-> destacadas[d]]]

\* the requests that are run: who sends them and on which id
PeticionesDestacadas ==
    {[op |-> "destacar_planeacion", current_user |-> u, id |-> p] :
        u \in {3, 4}, p \in {1, 2}}
    \cup {[op |-> "incrementar_visualizaciones", current_user |-> 1, id |-> 1],
          [op |-> "eliminar_planeacion_destacada", current_user |-> 3, id |-> 1]}

\* the outcome of the request when it runs alone on the committed tables
Sola(pet) ==
    CASE pet.op = "destacar_planeacion" ->
            destacar_planeacion(pet.current_user, pet.id, "r1")
      [] pet.op = "incrementar_visualizaciones" ->
            incrementar_visualizaciones(pet.current_user, pet.id,
                IF pet.id \in DOMAIN destacadas
                THEN destacadas[pet.id].visualizaciones ELSE 0)
      [] pet.op = "eliminar_planeacion_destacada" ->
            eliminar_planeacion_destacada(pet.current_user, pet.id)

\* a request arrives: a first one, and at most MaxPeticiones after it
RecibirDestacada ==
    /\ Len(enVuelo) <= MaxPeticiones
    /\ \E pet \in PeticionesDestacadas :
        /\ enVuelo' = Append(enVuelo, [op |-> pet.op, current_user |-> pet.current_user,
                                       id |-> pet.id, pc |-> "consulta", leido |-> 0])
    /\ UNCHANGED <<admin, periodos, tablas, remoto, resp, destacadas, cronogramas, actividades,
                   evidencias_actividad, tokens>>

\* the role check and the queries of the handler: it raises, or it goes on
\* to the commit with what it loaded
ConsultarDestacada ==
    /\ \E r \in DOMAIN enVuelo :
        /\ enVuelo[r].pc = "consulta"
        /\ \E o \in {Sola(enVuelo[r])} :
            IF o.resp.status \in {403, 404, 400}
            THEN /\ enVuelo' = [enVuelo EXCEPT ![r].pc = ToString(o.resp.status)]
                 /\ resp' = o.resp
            ELSE /\ enVuelo' = [enVuelo EXCEPT
                                   ![r].pc = "commit",
                                   ![r].leido =
                                       IF enVuelo[r].op = "incrementar_visualizaciones"
                                       THEN destacadas[enVuelo[r].id].visualizaciones
                                       ELSE 0]
                 /\ resp' = resp
    /\ UNCHANGED <<admin, periodos, tablas, remoto, destacadas, cronogramas, actividades,
                   evidencias_actividad, tokens>>

\* db.commit(): the INSERT fails on the unique constraint (IntegrityError),
\* the UPDATE of a row that is gone matches nothing (StaleDataError); both
\* are answered 500.  The DELETE of a row that is gone only warns.
ConfirmarDestacada ==
    /\ \E r \in DOMAIN enVuelo :
        LET pet == enVuelo[r]
            Fin(st) == /\ enVuelo' = [enVuelo EXCEPT ![r].pc = ToString(st)]
                       /\ resp' = Resp(pet.op, st, "", IF st = 500 THEN 0 ELSE pet.id)
        IN
        /\ pet.pc = "commit"
        /\ CASE pet.op = "destacar_planeacion" ->
                  IF ViolaUnique(destacadas, pet.id)
                  THEN Fin(500) /\ UNCHANGED <<destacadas, seq>>
                  ELSE /\ Fin(201)
                       /\ destacadas' = destacadas @@
                              (seq["destacadas"] :>
                                  [planeacion_id |-> pet.id,
                                   coordinador_id |-> pet.current_user,
                                   razon |-> "r1", activa |-> TRUE,
                                   visualizaciones |-> 0])
                       /\ seq' = [seq EXCEPT !["destacadas"] = @ + 1]
             [] pet.op = "incrementar_visualizaciones" ->
                  /\ \E o \in {incrementar_visualizaciones(pet.current_user, pet.id, pet.leido)} :
                        IF o.resp.status = 404
                        THEN Fin(500) /\ UNCHANGED destacadas
                        ELSE Fin(200) /\ destacadas' = o.filas
                  /\ UNCHANGED seq
             [] pet.op = "eliminar_planeacion_destacada" ->
                  /\ Fin(200)
                  /\ destacadas' = [d \in DOMAIN destacadas \ {pet.id} |-> destacadas[d]]
                  /\ UNCHANGED seq
    /\ UNCHANGED <<admin, periodos, remoto, planeaciones, proyectos, evidencias, publicaciones,
                   observadores, comentarios, comentarios_proyecto, cronogramas, actividades,
                   evidencias_actividad, tokens>>

\* Period 1 is active and docente 1 has uploaded two lesson plans.
InitDestacadas ==
    /\ periodos = [crear_periodos_iniciales EXCEPT ![1].activo = TRUE]
    /\ planeaciones =
           [p \in {1, 2} |->
               [docente_id |-> 1, asignatura_id |-> 1, sede_id |-> SedeId(1),
                periodo_id |-> 1, titulo |-> "t1", drive_file_id |-> p,
                tamano_bytes |-> 1,
                tipo_archivo |-> ALLOWED_MIME_TYPES_planeaciones[MimePdf]]]
    /\ proyectos = << >>
    /\ evidencias = << >>
    /\ publicaciones = << >>
    /\ observadores = << >>
    /\ comentarios = << >>
    /\ comentarios_proyecto = << >>
    /\ seq = [t \in {"planeaciones", "proyectos", "evidencias", "publicaciones",
                     "observadores", "comentarios", "comentarios_proyecto",
                     "destacadas", "cronogramas", "actividades",
                     "evidencias_actividad"} |->
                 IF t = "planeaciones" THEN 3 ELSE 1]
    /\ destacadas = << >>
    /\ cronogramas = << >>
    /\ actividades = << >>
    /\ evidencias_actividad = << >>
    /\ tokens = {}
    /\ drive = {1, 2}
    /\ nextFileId = 3
    /\ driveLog = << >>
    /\ driveConfigurado = TRUE
    /\ resp = NoResp
    /\ enVuelo = << >>
    /\ users = [u \in Usuarios |-> [rol |-> Rol(u), sede_id |-> SedeId(u), activo |-> TRUE]]
    /\ sedes = (1 :> [nombre |-> "n1"])
    /\ areas = << >>
    /\ seqAdmin = [users |-> 5, sedes |-> 2, areas |-> 1]
NextDestacadas == RecibirDestacada \/ ConsultarDestacada \/ ConfirmarDestacada
SpecDestacadas == InitDestacadas /\ [][NextDestacadas]_vars

\* --------------------------------------------------------- SpecCronograma
\* The yearly schedule of a docente, its activities and their evidence.
\* datetime.now().year: the requests are sent within one school year
AnioActual == 2025
EstadosActividad == {"pendiente", "completada", "retrasada", "cancelada"}

\* POST /cronogramas/
crear_cronograma(current_user, titulo) ==
    LET Err(st, det) ==
            [resp |-> Resp("crear_cronograma", st, det, 0), filas |-> cronogramas]
        existe == {c \in DOMAIN cronogramas :
                      /\ cronogramas[c].docente_id = current_user
                      /\ cronogramas[c].anio_escolar = AnioActual}
        id == seq["cronogramas"]
    IN
    IF Rol(current_user) # "docente"
    THEN Err(403, "Solo docentes pueden crear cronogramas")
    ELSE IF existe # {}
    THEN Err(400, "Ya existe un cronograma creado para el anio")
    ELSE [resp |-> Resp("crear_cronograma", 201, "", id),
          filas |-> cronogramas @@
                       (id :> [docente_id |-> current_user, titulo |-> titulo,
                               anio_escolar |-> AnioActual])]

\* POST /cronogramas/actividades
agregar_actividad(current_user, cronograma_id, titulo) ==
    LET Err(st, det) ==
            [resp |-> Resp("agregar_actividad", st, det, 0), filas |-> actividades]
        id == seq["actividades"]
    IN
    IF cronograma_id \notin DOMAIN cronogramas
    THEN Err(404, "Cronograma padre no encontrado")
    ELSE IF cronogramas[cronograma_id].docente_id # current_user
    THEN Err(403, "No puedes modificar cronogramas de otros docentes")
    ELSE [resp |-> Resp("agregar_actividad", 200, "", id),
          filas |-> actividades @@
                       (id :> [cronograma_id |-> cronograma_id, titulo |-> titulo,
                               estado |-> "pendiente"])]

\* PATCH /cronogramas/actividades/{id} ; estado = Ninguno is None; a value
\* outside chk_actividad_estado fails at the commit
actualizar_actividad(current_user, id, estado) ==
    LET Err(st, det) ==
            [resp |-> Resp("actualizar_actividad", st, det, 0), filas |-> actividades]
    IN
    IF id \notin DOMAIN actividades
    THEN Err(404, "Actividad no encontrada")
    ELSE IF cronogramas[actividades[id].cronograma_id].docente_id # current_user
    THEN Err(403, "No tienes permiso para editar esta actividad")
    ELSE IF estado # Ninguno /\ estado \notin EstadosActividad
    THEN Err(500, "IntegrityError")
    ELSE [resp |-> Resp("actualizar_actividad", 200, "", id),
          filas |-> IF estado # Ninguno
                    THEN [actividades EXCEPT ![id].estado = estado]
                    ELSE actividades]

\* except Exception as e: raise HTTPException(status_code=500, ...) ; the
\* HTTPException(400) of the size check is raised inside the try block and
\* is an Exception too
EstadoTrasExcept(st) == 500

\* POST /cronogramas/evidencias ; `sube` and `confirma` are the outcomes of
\* the upload and of the commit
subir_evidencia(current_user, actividad_id, archivo, sube, confirma) ==
    LET Fin(st, det, acts, evs, ds) ==
            [resp |-> Resp("subir_evidencia", st, det, IF st = 200 THEN seq["evidencias_actividad"] ELSE 0),
             actividades |-> acts, evidencias_actividad |-> evs, ds |-> ds]
        Err(st, det, ds) == Fin(st, det, actividades, evidencias_actividad, ds)
        ds0 == DriveAlEntrar
        ds1 == is_configured(ds0)
        ds2 == upload_file(ds1, sube)
        actividad == actividades[actividad_id]
        evidencia == [actividad_id |-> actividad_id, drive_file_id |-> ds1.next,
                      tipo_archivo |-> archivo.content_type]
    IN
    IF actividad_id \notin DOMAIN actividades
    THEN Err(404, "Actividad no encontrada", ds0)
    ELSE IF cronogramas[actividad.cronograma_id].docente_id # current_user
    THEN Err(403, "No tienes permiso para subir evidencias aqui", ds0)
    ELSE IF ~EstaConfigurado
    THEN Err(503, "Google Drive no configurado", ds1)
    ELSE IF archivo.size > MAX_FILE_SIZE
    THEN Err(EstadoTrasExcept(400), "Error subiendo archivo: Archivo muy grande (>10MB)", ds1)
    ELSE IF UploadLanza(sube)
    THEN Err(500, "Error subiendo archivo", ds2)
    ELSE IF ~confirma
    THEN Err(500, "Error subiendo archivo", ds2)
    ELSE Fin(200, "",
             IF actividad.estado = "pendiente"
             THEN [actividades EXCEPT ![actividad_id].estado = "completada"]
             ELSE actividades,
             evidencias_actividad @@ (seq["evidencias_actividad"] :> evidencia),
             ds2)

CrearCronograma ==
    /\ \E u \in {1, 2, 3} :
        \E o \in {crear_cronograma(u, "t1")} :
        /\ cronogramas' = o.filas
        /\ SeqTras("cronogramas", o.filas)
        /\ resp' = o.resp
    /\ driveLog' = << >>
    /\ UNCHANGED <<admin, enVuelo, periodos, planeaciones, proyectos, evidencias, publicaciones,
                   observadores, comentarios, comentarios_proyecto, destacadas, actividades,
                   evidencias_actividad, tokens, drive, nextFileId, driveConfigurado>>

AgregarActividad ==
    /\ seq["actividades"] <= MaxFilas
    /\ \E u \in {1, 2}, c \in DOMAIN cronogramas :
        \E o \in {agregar_actividad(u, c, "t1")} :
        /\ actividades' = o.filas
        /\ SeqTras("actividades", o.filas)
        /\ resp' = o.resp
    /\ driveLog' = << >>
    /\ UNCHANGED <<admin, enVuelo, periodos, planeaciones, proyectos, evidencias, publicaciones,
                   observadores, comentarios, comentarios_proyecto, destacadas, cronogramas,
                   evidencias_actividad, tokens, drive, nextFileId, driveConfigurado>>

ActualizarActividad ==
    /\ \E u \in {1, 2}, a \in DOMAIN actividades,
          e \in {Ninguno, "retrasada", "cancelada", "pendiente", "aplazada"} :
        \E o \in {actualizar_actividad(u, a, e)} :
        /\ actividades' = o.filas
        /\ resp' = o.resp
    /\ driveLog' = << >>
    /\ UNCHANGED <<admin, enVuelo, periodos, planeaciones, proyectos, evidencias, publicaciones,
                   observadores, comentarios, comentarios_proyecto, destacadas, cronogramas,
                   evidencias_actividad, tokens, seq, drive, nextFileId, driveConfigurado>>

SubirEvidencia ==
    /\ seq["evidencias_actividad"] <= MaxFilas
    /\ nextFileId <= MaxArchivos
    /\ \E u \in {1, 2}, a \in 1..MaxFilas, f \in ArchivosUsados, sube \in BOOLEAN,
          confirma \in BOOLEAN :
        \E o \in {subir_evidencia(u, a, f, sube, confirma)} :
        /\ actividades' = o.actividades
        /\ evidencias_actividad' = o.evidencias_actividad
        /\ SeqTras("evidencias_actividad", o.evidencias_actividad)
        /\ DriveTras(o.ds)
        /\ resp' = o.resp
    /\ UNCHANGED <<admin, enVuelo, periodos, planeaciones, proyectos, evidencias, publicaciones,
                   observadores, comentarios, comentarios_proyecto, destacadas, cronogramas,
                   tokens, driveConfigurado>>

NextCronograma ==
    CrearCronograma \/ AgregarActividad \/ ActualizarActividad \/ SubirEvidencia
SpecCronograma == InitArchivos /\ [][NextCronograma]_vars

\* --------------------------------------------------------------- SpecAuth
\* Login and the dependency that resolves the bearer token of every other
\* endpoint.  The id of a user stands for the cedula; a token is the `sub` it
\* carries, and it decodes when login issued it (signed, not expired).

\* POST /auth/ ; `password_ok` says whether the password sent is the stored one
login(cedula, password_ok) ==
    LET Err(st, det) == [resp |-> Resp("login", st, det, 0), tokens |-> tokens] IN
    IF cedula \notin DOMAIN users
    THEN Err(404, "User not found")
    ELSE IF ~password_ok
    THEN Err(403, "Incorrect password")
    ELSE IF ~users[cedula].activo
    THEN Err(403, "User not active")
    ELSE [resp |-> Resp("login", 200, "", cedula), tokens |-> tokens \cup {cedula}]

\* if not user.activo
NuncaInactivo(user) == FALSE
UsuarioInactivo(user) == ~user.activo

\* Auth.get_current_user: the user the handler receives (Ninguno when the
\* dependency raises) and the response of the raise
get_current_user(token) ==
    LET Raise(st, det) == [user |-> 0, resp |-> Resp("get_current_user", st, det, 0)] IN
    IF token \notin tokens
    THEN Raise(401, "Could not validate credentials")
    ELSE IF token \notin DOMAIN users
    THEN Raise(401, "Could not validate credentials")
    ELSE IF UsuarioInactivo(users[token])
    THEN Raise(403, "Usuario inactivo")
    ELSE [user |-> token, resp |-> NoResp]

\* PATCH /periodos/{periodo_id} with Depends(Auth.get_current_user): the
\* handler runs only when the dependency returns a user
PeticionUpdatePeriodo(token, periodo_id, datos) ==
    LET a == get_current_user(token) IN
    IF a.user = 0
    THEN [resp |-> a.resp, periodos |-> periodos]
    ELSE update_periodo(a.user, periodo_id, datos)

\* PATCH /users/{id} with Depends(Auth.get_current_user)
PeticionUpdateUser(token, id, campos, rol, sede_id, activo) ==
    LET a == get_current_user(token) IN
    IF a.user = 0
    THEN ResultadoAdmin(a.resp, users, sedes, areas)
    ELSE update_user(a.user, id, campos, rol, sede_id, activo)

\* POST /cronogramas/ with Depends(Auth.get_current_user)
PeticionCrearCronograma(token, titulo) ==
    LET a == get_current_user(token) IN
    IF a.user = 0
    THEN [resp |-> a.resp, filas |-> cronogramas]
    ELSE crear_cronograma(a.user, titulo)

\* the users whose requests are run: a docente and a coordinator
Portadores == {1, 3}
\* the bodies of update_periodo that are sent: activo alone
SoloCampoActivo == {d \in PeriodoUpdate : d.campos = {"activo"}}

Login ==
    /\ \E c \in Portadores \cup {5}, password_ok \in BOOLEAN :
        \E o \in {login(c, password_ok)} :
        /\ tokens' = o.tokens
        /\ resp' = o.resp
    /\ driveLog' = << >>
    /\ UNCHANGED <<admin, enVuelo, periodos, tablas, destacadas, cronogramas, actividades,
                   evidencias_actividad, drive, nextFileId, driveConfigurado>>

PedirUpdateUser ==
    \E t \in Portadores, id \in Portadores, activo \in BOOLEAN :
        AdminTras(PeticionUpdateUser(t, id, {"activo"}, "docente", 0, activo))

PedirUpdatePeriodo ==
    /\ \E t \in Portadores, d \in SoloCampoActivo :
        \E o \in {PeticionUpdatePeriodo(t, 1, d)} :
        /\ periodos' = o.periodos
        /\ resp' = o.resp
    /\ driveLog' = << >>
    /\ UNCHANGED <<admin, otras, enVuelo, tablas, drive, nextFileId, driveConfigurado>>

PedirCrearCronograma ==
    /\ \E t \in Portadores :
        \E o \in {PeticionCrearCronograma(t, "t1")} :
        /\ cronogramas' = o.filas
        /\ SeqTras("cronogramas", o.filas)
        /\ resp' = o.resp
    /\ driveLog' = << >>
    /\ UNCHANGED <<admin, enVuelo, periodos, planeaciones, proyectos, evidencias, publicaciones,
                   observadores, comentarios, comentarios_proyecto, destacadas, actividades,
                   evidencias_actividad, tokens, drive, nextFileId, driveConfigurado>>

NextAuth == Login \/ PedirUpdateUser \/ PedirUpdatePeriodo \/ PedirCrearCronograma
SpecAuth == Init /\ [][NextAuth]_vars

\* ----------------------------------------------------------------- claims
\* C1: starting from the seeded state, after any sequence of sequentially
\* executed update_periodo calls (any role, any id, any fields) at most one
\* period is active.
C1_AtMostOneActive == Cardinality(PeriodosActivos) <= 1
\* a period was activated, with dates, by a request that succeeded
C1_Witness ==
    /\ resp.op = "update_periodo" /\ resp.status = 200
    /\ \E p \in PeriodoIds : periodos[p].activo /\ periodos[p].fecha_inicio = 1
    /\ \E q \in PeriodoIds : ~periodos[q].activo /\ periodos[q].fecha_fin = 1

\* C2: while period A is active, an administrator's update_periodo(B,
\* activo=true) for B # A answers 400 "Ya existe un periodo activo" (the
\* Conflict of the exclusive-lock policy) and changes no row: A stays active,
\* B stays inactive and the dates sent with the request are not applied.
C2_ExclusiveLock ==
    \A A \in PeriodosActivos : \A B \in PeriodoIds \ {A} :
        \A u \in Admins : \A d \in PeriodoUpdateActiva :
            \A o \in {update_periodo(u, B, d)} :
            /\ o.resp.status = 400
            /\ o.resp.detail = "Ya existe un periodo activo"
            /\ o.periodos[A].activo
            /\ ~o.periodos[B].activo
            /\ o.periodos[B] = periodos[B]
            /\ o.periodos = periodos
\* the conflict was answered while a period with its dates set was active
C2_Witness ==
    /\ resp.op = "update_periodo" /\ resp.status = 400
    /\ \E A \in PeriodosActivos :
          periodos[A].fecha_inicio = 1 /\ periodos[A].fecha_fin = 1

\* C3 (as amended): an administrator's update_periodo(B, activo=true)
\* succeeds exactly when no other period is active; after a success
\* get_periodo_activo returns exactly B and every other period is inactive.
C3_ActivationWhenFree ==
    \A u \in Admins : \A B \in PeriodoIds : \A d \in PeriodoUpdateActiva :
        \A o \in {update_periodo(u, B, d)} :
        /\ (o.resp.status = 200) <=> (PeriodosActivos \subseteq {B})
        /\ (o.resp.status = 200) =>
              /\ \A r \in get_periodo_activo(o.periodos) :
                    r.status = 200 /\ r.id = B
              /\ \A q \in PeriodoIds \ {B} : ~o.periodos[q].activo
\* an activation succeeded and the active-period query then answered
C3_Witness ==
    /\ resp.op = "get_periodo_activo" /\ resp.status = 200
    /\ PeriodosActivos = {resp.id}
\* C3 as stated (auto-deactivate policy): whatever period was active before,
\* the activation of B succeeds and leaves B the only active period.
C3_AutoDeactivate ==
    \A u \in Admins : \A B \in PeriodoIds : \A d \in PeriodoUpdateActiva :
        \A o \in {update_periodo(u, B, d)} :
        /\ o.resp.status = 200
        /\ Activos(o.periodos) = {B}

\* C5: update_periodo by a user whose role is neither coordinador nor rector
\* answers 403 and leaves every period row unchanged, whether or not the id
\* exists and whatever fields are sent.
C5_NonAdminForbidden ==
    \A u \in Usuarios \ Admins : \A p \in 1..(NumPeriodos + 1) :
        \A d \in PeriodoUpdate :
            \A o \in {update_periodo(u, p, d)} :
            /\ o.resp.status = 403
            /\ o.periodos = periodos
\* a 403 was answered after the table had left its seeded value
C5_Witness ==
    /\ resp.op = "update_periodo" /\ resp.status = 403
    /\ periodos # crear_periodos_iniciales

\* C4: once two overlapping update_periodo requests that set activo = true
\* on two different periods have both been answered, at most one period is
\* active and one of the two was rejected.
C4_ConcurrentActivations ==
    \A r1 \in Respondidas : \A r2 \in Respondidas \ {r1} :
        (/\ ActivaPeriodo(enVuelo[r1].datos) /\ ActivaPeriodo(enVuelo[r2].datos)
         /\ enVuelo[r1].periodo_id # enVuelo[r2].periodo_id
         /\ EsAdmin(enVuelo[r1].current_user) /\ EsAdmin(enVuelo[r2].current_user)
         /\ {enVuelo[r1].periodo_id, enVuelo[r2].periodo_id} \subseteq PeriodoIds
         /\ Len(enVuelo) = 2)
        => /\ Cardinality(PeriodosActivos) <= 1
           /\ "400" \in {enVuelo[r1].pc, enVuelo[r2].pc}

\* C6: while no period is active, crear_planeacion and create_observador
\* answer a 4xx error (400 "no active period" when the earlier checks of the
\* request pass), upload nothing and write no row; this covers the states
\* after the only active period was deactivated.
C6_NoActivePeriod ==
    PeriodosActivos = {} =>
        \A u \in Usuarios : \A p \in First(PeriodosActivos) :
            /\ \A a \in {1, 2} : \A f \in Archivos : \A sube \in BOOLEAN :
                \A o \in {crear_planeacion(u, a, "t1", f, p, sube)} :
                    /\ o.resp.status \in {400, 403, 404}
                    /\ (Rol(u) = "docente" /\ SedeId(u) # 0 /\ a \in Asignaturas)
                           => o.resp.detail = "No hay un periodo academico activo"
                    /\ Subidas(o.ds.log) = {}
                    /\ o.ds.objs = drive
                    /\ o.filas = planeaciones
            /\ \A e \in {1, 2} :
                \A o \in {create_observador(u, e, "f1", p)} :
                    /\ o.resp.status = 400
                    /\ o.resp.detail = "No hay ningun periodo academico activo"
                    /\ o.filas = observadores
\* a creation was refused for want of an active period after the period in
\* which a plan had been created was deactivated
C6_Witness ==
    /\ PeriodosActivos = {}
    /\ planeaciones # << >>
    /\ resp.op = "crear_planeacion"
    /\ resp.detail = "No hay un periodo academico activo"

\* C7: a plan that crear_planeacion creates has the id of the period that is
\* active when the request runs as periodo_id and a Drive object id that is
\* not NULL and names a stored object; no later step, activation and
\* deactivation of periods included, changes the periodo_id of a plan.
C7_PeriodoDeLaPlaneacion ==
    /\ [](\A u \in Usuarios : \A a \in {1, 2} : \A f \in Archivos :
            \A p \in First(PeriodosActivos) : \A sube \in BOOLEAN :
                \A o \in {crear_planeacion(u, a, "t1", f, p, sube)} :
                    o.resp.status = 201 =>
                        /\ PeriodosActivos = {p}
                        /\ DOMAIN o.filas = DOMAIN planeaciones \cup {o.resp.id}
                        /\ o.filas[o.resp.id].periodo_id = p
                        /\ o.filas[o.resp.id].drive_file_id # 0
                        /\ o.filas[o.resp.id].drive_file_id \in o.ds.objs)
    /\ [][\A id \in DOMAIN planeaciones :
            /\ id \in DOMAIN planeaciones'
            /\ planeaciones'[id].periodo_id = planeaciones[id].periodo_id]_vars
\* a plan created in one period is still in it while another period is active
C7_Witness ==
    \E id \in DOMAIN planeaciones : \E q \in PeriodosActivos :
        /\ planeaciones[id].periodo_id # q
        /\ planeaciones[id].drive_file_id \in drive
        /\ resp.op = "update_periodo" /\ resp.status = 200

\* The request succeeds when it carries file `f` and Drive does what it is
\* asked: the request passes every check that does not look at the file.
BuenArchivo == Archivo(MimePdf, 1)
\* the outcome `o` of a request on table `tabla` is a validation failure that
\* made no upload or delete call and changed no row
RechazadoSinEfecto(o, tabla) ==
    /\ o.resp.status = 400
    /\ LlamadasRemotas(o.ds.log) = {}
    /\ o.ds.objs = drive
    /\ o.filas = tabla
Exito(o) == o.resp.status \in {200, 201}

\* C8: a create or a replace request (with or without eliminar_archivo) whose
\* file has a MIME type outside the allow-list of the resource, and which
\* would succeed with an allowed file, answers 400 "Tipo de archivo no
\* permitido", makes no upload and no delete call, and changes no row.
C8_BadMimeRejected ==
    \A u \in Usuarios : \A f \in Archivos : \A borra \in BOOLEAN :
      \A sube \in BOOLEAN : \A t \in {Ninguno, "t2"} :
        /\ f.content_type \notin DOMAIN ALLOWED_MIME_TYPES_planeaciones =>
            /\ \A p \in First(PeriodosActivos) :
                Exito(crear_planeacion(u, 1, "t1", BuenArchivo, p, TRUE))
                => RechazadoSinEfecto(crear_planeacion(u, 1, "t1", f, p, sube),
                                      planeaciones)
            /\ \A id \in DOMAIN planeaciones :
                Exito(actualizar_planeacion(u, id, t, 0, 0, BuenArchivo, TRUE, TRUE))
                => RechazadoSinEfecto(
                       actualizar_planeacion(u, id, t, 0, 0, f, borra, sube),
                       planeaciones)
        /\ f.content_type \notin DOMAIN ALLOWED_MIME_TYPES_proyectos =>
            /\ Exito(crear_proyecto(u, "t1", BuenArchivo, TRUE))
               => RechazadoSinEfecto(crear_proyecto(u, "t1", f, sube), proyectos)
            /\ \A id \in DOMAIN proyectos :
                /\ Exito(crear_evidencia(u, id, "t1", BuenArchivo, TRUE))
                   => RechazadoSinEfecto(crear_evidencia(u, id, "t1", f, sube),
                                         evidencias)
                /\ \A eliminar_archivo \in BOOLEAN :
                    Exito(actualizar_proyecto(u, id, t, Ninguno, BuenArchivo,
                                              eliminar_archivo, TRUE, TRUE))
                    => RechazadoSinEfecto(
                           actualizar_proyecto(u, id, t, Ninguno, f,
                                               eliminar_archivo, borra, sube),
                           proyectos)
        /\ f.content_type \notin DOMAIN ALLOWED_MIME_TYPES_publicaciones =>
            /\ Exito(crear_publicacion(u, "t1", BuenArchivo, TRUE))
               => RechazadoSinEfecto(crear_publicacion(u, "t1", f, sube),
                                     publicaciones)
            /\ \A id \in DOMAIN publicaciones : \A eliminar_archivo \in BOOLEAN :
                Exito(actualizar_publicacion(u, id, t, BuenArchivo,
                                             eliminar_archivo, TRUE, TRUE))
                => RechazadoSinEfecto(
                       actualizar_publicacion(u, id, t, f, eliminar_archivo,
                                              borra, sube),
                       publicaciones)

\* the outcome `o` of a request on table `tabla` is a validation failure that
\* uploaded nothing and changed no row
RechazadoSinSubida(o, tabla) ==
    /\ o.resp.status = 400
    /\ Subidas(o.ds.log) = {}
    /\ o.filas = tabla
\* The files of the three sizes of C9, of a type every resource allows
Vacio == Archivo(MimePdf, 0)
Justo == Archivo(MimePdf, MAX_FILE_SIZE)
Excedido == Archivo(MimePdf, MAX_FILE_SIZE + 1)
\* The size rule for one request: `bueno` is its outcome with BuenArchivo,
\* `justo` with a file of 10 MiB (Drive doing what it is asked in both),
\* `rechazados` its outcomes with the empty and the oversize file.
TamanosLimite(bueno, justo, rechazados, tabla) ==
    Exito(bueno) =>
        /\ \A o \in rechazados : RechazadoSinSubida(o, tabla)
        /\ Exito(justo)

\* C9: in every create and every replace request that would succeed with
\* a valid file, a file of 0 bytes and a file of 10 MiB + 1 byte are answered
\* 400 with no upload and no row change, and a file of exactly 10 MiB is
\* accepted.
C9_SizeBoundaries ==
    \A u \in Usuarios : \A t \in {Ninguno, "t2"} :
        /\ \A p \in First(PeriodosActivos) :
            TamanosLimite(crear_planeacion(u, 1, "t1", BuenArchivo, p, TRUE),
                          crear_planeacion(u, 1, "t1", Justo, p, TRUE),
                          {crear_planeacion(u, 1, "t1", f, p, sube) :
                              f \in {Vacio, Excedido}, sube \in BOOLEAN},
                          planeaciones)
        /\ TamanosLimite(crear_proyecto(u, "t1", BuenArchivo, TRUE),
                         crear_proyecto(u, "t1", Justo, TRUE),
                         {crear_proyecto(u, "t1", f, sube) :
                             f \in {Vacio, Excedido}, sube \in BOOLEAN},
                         proyectos)
        /\ TamanosLimite(crear_publicacion(u, "t1", BuenArchivo, TRUE),
                         crear_publicacion(u, "t1", Justo, TRUE),
                         {crear_publicacion(u, "t1", f, sube) :
                             f \in {Vacio, Excedido}, sube \in BOOLEAN},
                         publicaciones)
        /\ \A id \in DOMAIN proyectos :
            TamanosLimite(crear_evidencia(u, id, "t1", BuenArchivo, TRUE),
                          crear_evidencia(u, id, "t1", Justo, TRUE),
                          {crear_evidencia(u, id, "t1", f, sube) :
                              f \in {Vacio, Excedido}, sube \in BOOLEAN},
                          evidencias)
        /\ \A id \in DOMAIN planeaciones :
            TamanosLimite(
                actualizar_planeacion(u, id, t, 0, 0, BuenArchivo, TRUE, TRUE),
                actualizar_planeacion(u, id, t, 0, 0, Justo, TRUE, TRUE),
                {actualizar_planeacion(u, id, t, 0, 0, f, borra, sube) :
                    f \in {Vacio, Excedido}, borra \in BOOLEAN, sube \in BOOLEAN},
                planeaciones)
        /\ \A id \in DOMAIN proyectos :
            TamanosLimite(
                actualizar_proyecto(u, id, t, Ninguno, BuenArchivo, FALSE, TRUE, TRUE),
                actualizar_proyecto(u, id, t, Ninguno, Justo, FALSE, TRUE, TRUE),
                {actualizar_proyecto(u, id, t, Ninguno, f, FALSE, borra, sube) :
                    f \in {Vacio, Excedido}, borra \in BOOLEAN, sube \in BOOLEAN},
                proyectos)
        /\ \A id \in DOMAIN publicaciones :
            TamanosLimite(
                actualizar_publicacion(u, id, t, BuenArchivo, FALSE, TRUE, TRUE),
                actualizar_publicacion(u, id, t, Justo, FALSE, TRUE, TRUE),
                {actualizar_publicacion(u, id, t, f, FALSE, borra, sube) :
                    f \in {Vacio, Excedido}, borra \in BOOLEAN, sube \in BOOLEAN},
                publicaciones)

\* C10: a create request with a file that reaches the upload (it succeeds
\* when the upload does) answers 500 when upload_file raises, and the table
\* of the resource keeps the rows it had; crear_evidencia writes no project.
C10_UploadFailsNoRow ==
    \A u \in Usuarios : \A f \in Archivos :
        /\ \A p \in First(PeriodosActivos) : \A a \in {1, 2} :
            Exito(crear_planeacion(u, a, "t1", f, p, TRUE)) =>
                \A o \in {crear_planeacion(u, a, "t1", f, p, FALSE)} :
                    /\ o.resp.status = 500
                    /\ o.filas = planeaciones
                    /\ o.ds.objs = drive
        /\ Exito(crear_proyecto(u, "t1", f, TRUE)) =>
                \A o \in {crear_proyecto(u, "t1", f, FALSE)} :
                    /\ o.resp.status = 500
                    /\ o.filas = proyectos
                    /\ o.ds.objs = drive
        /\ \A id \in 1..MaxFilas :
            Exito(crear_evidencia(u, id, "t1", f, TRUE)) =>
                \A o \in {crear_evidencia(u, id, "t1", f, FALSE)} :
                    /\ o.resp.status = 500
                    /\ o.filas = evidencias
                    /\ o.ds.objs = drive
        /\ Exito(crear_publicacion(u, "t1", f, TRUE)) =>
                \A o \in {crear_publicacion(u, "t1", f, FALSE)} :
                    /\ o.resp.status = 500
                    /\ o.filas = publicaciones
                    /\ o.ds.objs = drive
\* the upload of an evidence file raised: 500, and the project has no evidence
C10_Witness ==
    /\ resp.op = "crear_evidencia" /\ resp.status = 500
    /\ \E i \in DOMAIN driveLog : driveLog[i] = "upload_file"
    /\ proyectos # << >>
    /\ evidencias = << >>

\* the positions of the calls named `n` in the call log of a request
Posiciones(log, n) == {i \in DOMAIN log : log[i] = n}
\* in the outcome `o` every delete call comes after an upload call, and the
\* upload succeeded
BorraTrasSubir(o, sube) ==
    \A i \in Posiciones(o.ds.log, "delete_file") :
        /\ sube
        /\ \E j \in Posiciones(o.ds.log, "upload_file") : j < i

\* C11: in a replace request (a new file for a row that has an attachment,
\* eliminar_archivo not set) the delete of the old object is called only
\* after the upload of the new one returned successfully.
C11_UploadBeforeDelete ==
    \A u \in Usuarios : \A t \in {Ninguno, "t2"} : \A f \in Archivos :
      \A borra \in BOOLEAN : \A sube \in BOOLEAN :
        /\ \A id \in DOMAIN planeaciones :
            planeaciones[id].drive_file_id # 0 =>
                BorraTrasSubir(
                    actualizar_planeacion(u, id, t, 0, 0, f, borra, sube), sube)
        /\ \A id \in DOMAIN proyectos :
            proyectos[id].drive_file_id # 0 =>
                BorraTrasSubir(
                    actualizar_proyecto(u, id, t, Ninguno, f, FALSE, borra, sube),
                    sube)
        /\ \A id \in DOMAIN publicaciones :
            publicaciones[id].drive_file_id # 0 =>
                BorraTrasSubir(
                    actualizar_publicacion(u, id, t, f, FALSE, borra, sube), sube)

\* C12: a replace request that reaches the upload (it succeeds when the
\* upload does) and whose upload fails answers 500, and the table holds the
\* row it held before the request, attachment columns included (and the
\* title the request also sent is not written); with or without
\* eliminar_archivo.
C12_ReplaceFailsRowKept ==
    \A u \in Usuarios : \A t \in {"t2"} :
      \A f \in ArchivosUsados \cup {BuenArchivo} :
      \A borra \in BOOLEAN :
        /\ \A id \in DOMAIN planeaciones :
            Exito(actualizar_planeacion(u, id, t, 0, 0, f, borra, TRUE)) =>
                \A o \in {actualizar_planeacion(u, id, t, 0, 0, f, borra, FALSE)} :
                    /\ o.resp.status = 500
                    /\ o.filas[id] = planeaciones[id]
                    /\ o.filas = planeaciones
        /\ \A eliminar_archivo \in BOOLEAN :
            /\ \A id \in DOMAIN proyectos :
                Exito(actualizar_proyecto(u, id, t, Ninguno, f, eliminar_archivo,
                                          borra, TRUE)) =>
                    \A o \in {actualizar_proyecto(u, id, t, Ninguno, f,
                                                  eliminar_archivo, borra, FALSE)} :
                        /\ o.resp.status = 500
                        /\ o.filas[id] = proyectos[id]
                        /\ o.filas = proyectos
            /\ \A id \in DOMAIN publicaciones :
                Exito(actualizar_publicacion(u, id, t, f, eliminar_archivo,
                                             borra, TRUE)) =>
                    \A o \in {actualizar_publicacion(u, id, t, f, eliminar_archivo,
                                                     borra, FALSE)} :
                        /\ o.resp.status = 500
                        /\ o.filas[id] = publicaciones[id]
                        /\ o.filas = publicaciones
\* the upload of a replacement failed and the plan still has its attachment
\* columns
C12_Witness ==
    /\ resp.op = "actualizar_planeacion" /\ resp.status = 500
    /\ Posiciones(driveLog, "upload_file") # {}
    /\ \E id \in DOMAIN planeaciones :
          /\ planeaciones[id].drive_file_id # 0
          /\ planeaciones[id].tamano_bytes = MAX_FILE_SIZE

\* the object `viejo` that a row referenced is in storage after the request
\* with outcome `o`, unless the upload of the new file succeeded
ViejoConservado(viejo, o, sube) ==
    (viejo # 0 /\ viejo \in drive /\ viejo \notin o.ds.objs) => (sube /\ Exito(o))

\* C13: in a replace request the object the row referenced before the
\* request is still in storage afterwards when the upload of the new file
\* failed; it leaves storage only when the new upload succeeded.
C13_OldObjectKept ==
    \A u \in Usuarios : \A t \in {Ninguno, "t2"} : \A f \in Archivos :
      \A borra \in BOOLEAN : \A sube \in BOOLEAN :
        /\ \A id \in DOMAIN planeaciones :
            ViejoConservado(planeaciones[id].drive_file_id,
                actualizar_planeacion(u, id, t, 0, 0, f, borra, sube), sube)
        /\ \A id \in DOMAIN proyectos :
            ViejoConservado(proyectos[id].drive_file_id,
                actualizar_proyecto(u, id, t, Ninguno, f, FALSE, borra, sube), sube)
        /\ \A id \in DOMAIN publicaciones :
            ViejoConservado(publicaciones[id].drive_file_id,
                actualizar_publicacion(u, id, t, f, FALSE, borra, sube), sube)

\* the request with outcome `o` failed, made no storage call other than
\* is_configured, and left storage and the rows of `tabla` as they were
SoloConsultaConfiguracion(o, tabla) ==
    /\ o.resp.status >= 400
    /\ \A i \in DOMAIN o.ds.log : o.ds.log[i] = "is_configured"
    /\ o.ds.objs = drive
    /\ o.filas = tabla

RemotoFallaOSeOmite(borra) == ~borra \/ ~driveConfigurado

\* C14: a delete of a parent that has an attachment, by an authorized
\* caller, whose remote delete fails or is skipped, answers success and the
\* parent row (with its attachment columns) is no longer in its table.
C14_DeleteDespiteRemoteFailure ==
    \A u \in Usuarios : \A borra \in BOOLEAN :
      RemotoFallaOSeOmite(borra) =>
        /\ \A id \in DOMAIN planeaciones :
            (/\ planeaciones[id].drive_file_id # 0
             /\ planeaciones[id].docente_id = u \/ Rol(u) \in ROLES_PERMITIDOS) =>
                \A o \in {eliminar_planeacion(u, id, borra)} :
                    o.resp.status = 200 /\ id \notin DOMAIN o.filas
        /\ \A id \in DOMAIN publicaciones :
            (/\ publicaciones[id].drive_file_id # 0
             /\ publicaciones[id].autor_id = u) =>
                \A o \in {eliminar_publicacion(u, id, borra)} :
                    o.resp.status = 200 /\ id \notin DOMAIN o.filas
        /\ \A id \in DOMAIN proyectos :
            (/\ proyectos[id].drive_file_id # 0
             /\ proyectos[id].docente_id = u \/ Rol(u) \in ROLES_PERMITIDOS) =>
                \A o \in {eliminar_proyecto(u, id, IF borra THEN drive ELSE {})} :
                    o.resp.status = 200 /\ id \notin DOMAIN o.proyectos
        /\ \A e \in DOMAIN evidencias :
            (/\ evidencias[e].drive_file_id # 0
             /\ \/ proyectos[evidencias[e].proyecto_id].docente_id = u
                \/ Rol(u) \in ROLES_PERMITIDOS) =>
                \A o \in {eliminar_evidencia(u, evidencias[e].proyecto_id, e, borra)} :
                    o.resp.status = 200 /\ e \notin DOMAIN o.evidencias

\* every object identifier that the request with outcome `o` wrote in a row
\* of `tabla` (a new row, or a row whose identifier changed) is the one that
\* a successful upload of this request returned
EscritoPorSubida(o, tabla, sube) ==
    \A id \in DOMAIN o.filas :
        LET escrito == o.filas[id].drive_file_id IN
        (escrito # 0 /\ (id \notin DOMAIN tabla \/ tabla[id].drive_file_id # escrito))
            => /\ sube
               /\ Posiciones(o.ds.log, "upload_file") # {}
               /\ escrito = nextFileId
               /\ escrito \in o.ds.objs
\* the request with outcome `o` wrote no row of `tabla`: it only removed rows
SoloQuita(filas, tabla) ==
    \A id \in DOMAIN filas : id \in DOMAIN tabla /\ filas[id] = tabla[id]

\* C15: in every state reached by create, replace and delete requests with
\* uploads and remote deletes failing arbitrarily, any request writes a
\* non-null object identifier in a row only when an upload it made succeeded
\* and returned that identifier; the delete requests write none.
C15_IdsFromSuccessfulUpload ==
    \A u \in Usuarios : \A f \in ArchivosUsados \cup {BuenArchivo, NoArchivo} :
      \A borra \in BOOLEAN : \A sube \in BOOLEAN :
        /\ \A a \in {1, 2} : \A per \in {0, 1} :
            EscritoPorSubida(crear_planeacion(u, a, "t1", f, per, sube),
                             planeaciones, sube)
        /\ EscritoPorSubida(crear_proyecto(u, "t1", f, sube), proyectos, sube)
        /\ EscritoPorSubida(crear_publicacion(u, "t1", f, sube), publicaciones, sube)
        /\ \A id \in 1..MaxFilas :
            /\ id \in DOMAIN planeaciones =>
                EscritoPorSubida(
                    actualizar_planeacion(u, id, Ninguno, 0, 0, f, borra, sube),
                    planeaciones, sube)
            /\ f.presente =>
                EscritoPorSubida(crear_evidencia(u, id, "t1", f, sube),
                                 evidencias, sube)
            /\ \A eliminar_archivo \in BOOLEAN :
                /\ id \in DOMAIN proyectos =>
                    EscritoPorSubida(
                        actualizar_proyecto(u, id, Ninguno, Ninguno, f,
                                            eliminar_archivo, borra, sube),
                        proyectos, sube)
                /\ id \in DOMAIN publicaciones =>
                    EscritoPorSubida(
                        actualizar_publicacion(u, id, Ninguno, f, eliminar_archivo,
                                               borra, sube),
                        publicaciones, sube)
            /\ SoloQuita(eliminar_planeacion(u, id, borra).filas, planeaciones)
            /\ SoloQuita(eliminar_publicacion(u, id, borra).filas, publicaciones)
            /\ \A o \in {eliminar_proyecto(u, id, IF borra THEN drive ELSE {})} :
                SoloQuita(o.proyectos, proyectos) /\ SoloQuita(o.evidencias, evidencias)
            /\ \A e \in 1..MaxFilas :
                \A o \in {eliminar_evidencia(u, id, e, borra)} :
                    SoloQuita(o.proyectos, proyectos)
                    /\ SoloQuita(o.evidencias, evidencias)
\* after a delete of another row freed its object, a replace has written in
\* a publication the identifier its upload returned
C15_Witness ==
    /\ resp.op = "actualizar_publicacion" /\ resp.status = 200
    /\ Posiciones(driveLog, "upload_file") # {}
    /\ \E id \in DOMAIN publicaciones :
          /\ publicaciones[id].drive_file_id = nextFileId - 1
          /\ publicaciones[id].drive_file_id \in drive
    /\ seq["publicaciones"] - 1 > Cardinality(DOMAIN publicaciones)

\* the object identifiers that the rows of `tabla` hold
Referidos(tabla) ==
    {tabla[id].drive_file_id : id \in DOMAIN tabla} \ {0}

\* C16: in every state reached by create, replace, remove-attachment and
\* delete requests with uploads and remote deletes failing arbitrarily, every
\* object identifier held by a row of the four parent tables is the
\* identifier of an object that exists in remote storage.
C16_NoPhantomRow ==
    (Referidos(planeaciones) \cup Referidos(proyectos)
        \cup Referidos(evidencias) \cup Referidos(publicaciones)) \subseteq drive

\* the objects of project `id` and of its evidences
AdjuntosDelProyecto(id) ==
    ({proyectos[id].drive_file_id}
        \cup {evidencias[e].drive_file_id :
                e \in {x \in DOMAIN evidencias : evidencias[x].proyecto_id = id}})
    \ {0}

\* C18: eliminar_proyecto by the owner or an administrator answers success;
\* with storage configured it calls the remote delete once for the object of
\* the project and once for the object of each of its evidences, all of them
\* before db.delete, and the objects whose delete succeeded are gone from
\* storage; whatever the outcomes of the remote deletes, the tables no longer
\* hold the project, any of its evidences, or any comment on the project or
\* on one of those evidences.
C18_EliminarProyecto ==
    \A u \in Usuarios : \A id \in DOMAIN proyectos : \A borrados \in SUBSET drive :
        (proyectos[id].docente_id = u \/ Rol(u) \in ROLES_PERMITIDOS) =>
            \A o \in {eliminar_proyecto(u, id, borrados)} :
            LET es == {e \in DOMAIN evidencias : evidencias[e].proyecto_id = id}
                borrar == Posiciones(o.pasos, "delete_file")
            IN
            /\ o.resp.status = 200
            /\ driveConfigurado =>
                /\ Cardinality(borrar) = Cardinality(AdjuntosDelProyecto(id))
                /\ o.ds.objs = drive \ (AdjuntosDelProyecto(id) \cap borrados)
            /\ Posiciones(o.pasos, "db.delete") # {}
            /\ \A i \in borrar : \A j \in Posiciones(o.pasos, "db.delete") : i < j
            /\ id \notin DOMAIN o.proyectos
            /\ DOMAIN o.evidencias = DOMAIN evidencias \ es
            /\ \A c \in DOMAIN o.comentarios_proyecto :
                /\ o.comentarios_proyecto[c].proyecto_id # id
                /\ o.comentarios_proyecto[c].evidencia_id \notin es
\* a project that had an evidence, a comment on the project and a comment on
\* the evidence has been deleted: the three tables are empty, and a remote
\* delete had been called
C18_Witness ==
    /\ resp.op = "eliminar_proyecto" /\ resp.status = 200
    /\ seq["proyectos"] = 2 /\ seq["evidencias"] = 2
    /\ seq["comentarios_proyecto"] = 3
    /\ proyectos = << >> /\ evidencias = << >> /\ comentarios_proyecto = << >>
    /\ Posiciones(driveLog, "delete_file") # {}
    /\ drive # {}

\* the request was answered 403, it made no storage call, and storage and
\* the table `despues` of its outcome are what they were
Prohibido(r, ds, despues, tabla) ==
    /\ r.status = 403
    /\ ds.log = << >>
    /\ ds.objs = drive
    /\ despues = tabla

\* C19: a docente who updates or deletes an existing lesson plan or project
\* of another docente, or an existing comment on a lesson plan or on a
\* project (written by an administrator), is answered 403, never 404,
\* whatever else the request carries; the rows, the target among them, and
\* the objects in storage are unchanged.
C19_NonOwnerForbidden ==
    \A u \in Docentes :
      \A f \in ArchivosUsados \cup {BuenArchivo, NoArchivo} :
        \A borra \in BOOLEAN : \A sube \in BOOLEAN : \A t \in {Ninguno, "t2"} :
        /\ \A id \in DOMAIN planeaciones :
            planeaciones[id].docente_id # u =>
                /\ \A a \in {0, 1, 2} : \A per \in {0, 1, NumPeriodos + 1} :
                    \A o \in {actualizar_planeacion(u, id, t, a, per, f, borra, sube)} :
                        Prohibido(o.resp, o.ds, o.filas, planeaciones)
                /\ \A o \in {eliminar_planeacion(u, id, borra)} :
                        Prohibido(o.resp, o.ds, o.filas, planeaciones)
        /\ \A id \in DOMAIN proyectos :
            proyectos[id].docente_id # u =>
                /\ \A estado \in {Ninguno, "pausado", "archivado"} :
                   \A eliminar_archivo \in BOOLEAN :
                    \A o \in {actualizar_proyecto(u, id, t, estado, f,
                                                  eliminar_archivo, borra, sube)} :
                        Prohibido(o.resp, o.ds, o.filas, proyectos)
                /\ \A o \in {eliminar_proyecto(u, id, IF borra THEN drive ELSE {})} :
                        /\ Prohibido(o.resp, o.ds, o.proyectos, proyectos)
                        /\ o.evidencias = evidencias
                        /\ o.comentarios_proyecto = comentarios_proyecto
        /\ \A c \in DOMAIN comentarios :
            comentarios[c].coordinador_id # u =>
                /\ \A o \in {actualizar_comentario(u, c, "c2")} :
                        Prohibido(o.resp, o.ds, o.filas, comentarios)
                /\ \A o \in {eliminar_comentario(u, c)} :
                        Prohibido(o.resp, o.ds, o.filas, comentarios)
        /\ \A c \in DOMAIN comentarios_proyecto :
            comentarios_proyecto[c].coordinador_id # u =>
                /\ \A o \in {actualizar_comentario_proyecto(u, c, "c2")} :
                        Prohibido(o.resp, o.ds, o.filas, comentarios_proyecto)
                /\ \A o \in {eliminar_comentario_proyecto(u, c)} :
                        Prohibido(o.resp, o.ds, o.filas, comentarios_proyecto)
\* the delete of a lesson plan was refused: the caller is a docente who does
\* not own it; the plan, a comment on it and its object are still there
C19_Witness ==
    /\ resp.op = "eliminar_planeacion" /\ resp.status = 403
    /\ \E id \in DOMAIN planeaciones :
          /\ planeaciones[id].drive_file_id \in drive
          /\ \E c \in DOMAIN comentarios : comentarios[c].planeacion_id = id

\* the administrative request with outcome `o` was refused: 403, and the
\* three tables are what they were
AdminProhibido(o) ==
    /\ o.resp.status = 403
    /\ o.users = users /\ o.sedes = sedes /\ o.areas = areas

\* C20: every request of a caller whose role is docente that creates,
\* updates or deletes a user, a site or an area is answered 403 and leaves
\* the three tables unchanged.
C20_DocenteForbidden ==
    \A u \in DOMAIN users :
        users[u].rol = "docente" =>
            \A n \in Nombres : \A id \in 1..(MaxFilas + 4) :
                /\ \A rol \in RolesValidos : \A s \in {0, 1} :
                    /\ AdminProhibido(create_user(u, rol, s, TRUE))
                    /\ \A campos \in SUBSET {"rol", "sede_id"} :
                        AdminProhibido(update_user(u, id, campos, rol, s, TRUE))
                /\ AdminProhibido(delete_user(u, id))
                /\ AdminProhibido(create_sede(u, n))
                /\ AdminProhibido(update_sedes(u, id, n))
                /\ AdminProhibido(delete_sede(u, id))
                /\ AdminProhibido(create_area(u, n))
                /\ AdminProhibido(update_area(u, id, n))
                /\ AdminProhibido(delete_area(u, id))

\* C28: when P is the only active period, an administrator's
\* update_periodo(P, activo=true) answers 200, not the 400 of the lock, and
\* leaves the table as it was (every period's activo flag and dates), so the
\* call can be repeated any number of times with the same result.
SoloActivar == [campos |-> {"activo"}, fecha_inicio |-> 0, fecha_fin |-> 0, activo |-> "True"]
C28_ReactivationIdempotent ==
    \A P \in PeriodoIds : \A u \in Admins :
        (Activos(periodos) = {P}) =>
            \A o \in {update_periodo(u, P, SoloActivar)} :
                /\ o.resp.status = 200 /\ o.resp.id = P
                /\ o.periodos = periodos
                /\ \A q \in PeriodoIds : o.periodos[q].activo = periodos[q].activo
\* an activation of P was answered 200 and P is the only active period: the
\* state in which the repeated activation is made, and the one it leaves
C28_Witness ==
    /\ resp.op = "update_periodo" /\ resp.status = 200
    /\ Activos(periodos) = {resp.id}

\* C29: in every reachable state of the period table an administrator can make
\* any period P the only active one with at most two update_periodo calls:
\* no call is needed when P is the only active period, the activation of P
\* succeeds when no period is active, and otherwise the deactivation of the
\* active period succeeds and leaves no period active.
SoloDesactivar == [campos |-> {"activo"}, fecha_inicio |-> 0, fecha_fin |-> 0, activo |-> "False"]
C29_TwoCallsSuffice ==
    \A P \in PeriodoIds : \A u \in Admins :
        /\ \A a \in Activos(periodos) \ {P} :
              \A o \in {update_periodo(u, a, SoloDesactivar)} :
                  /\ o.resp.status = 200
                  /\ Activos(o.periodos) = {}
        /\ (Activos(periodos) = {}) =>
              \A o \in {update_periodo(u, P, SoloActivar)} :
                  /\ o.resp.status = 200
                  /\ Activos(o.periodos) = {P}
        /\ Activos(periodos) \in {{}, {P}} \cup {{a} : a \in PeriodoIds}

\* C27: whenever crear_planeacion or crear_evidencia answers an error (a
\* rejected file, a failed upload, or a commit that raises after the upload
\* succeeded), the remote storage holds no object the request uploaded: the
\* objects after the request are the objects before it.
C27_NoOrphanOnError ==
    \A u \in Usuarios : \A f \in Archivos : \A sube \in BOOLEAN : \A confirma \in BOOLEAN :
        /\ \A a \in Asignaturas : \A p \in First(PeriodosActivos) :
              \A o \in {db_commit(crear_planeacion(u, a, "t1", f, p, sube), planeaciones, confirma)} :
                  (o.resp.status # 201) => (o.ds.objs = drive)
        /\ \A pr \in DOMAIN proyectos :
              \A o \in {db_commit(crear_evidencia(u, pr, "t1", f, sube), evidencias, confirma)} :
                  (o.resp.status # 201) => (o.ds.objs = drive)

\* C26: in actualizar_planeacion and actualizar_proyecto, a request that
\* carries non-file fields (titulo, asignatura_id, estado) together with a
\* new file whose handling fails (Drive not configured, MIME type not
\* allowed, size over the limit, or the upload raising) is answered with an
\* error and persists none of the fields: the table after the request is the
\* table before it.
ArchivoFalla(f, permitidos, sube) ==
    \/ ~driveConfigurado
    \/ f.content_type \notin permitidos
    \/ f.size > MAX_FILE_SIZE
    \/ ~sube
C26_FieldsNotPersisted ==
    \A u \in Usuarios : \A f \in Archivos : \A borra \in BOOLEAN : \A sube \in BOOLEAN :
        /\ \A id \in DOMAIN planeaciones : \A t \in {Ninguno, "t2"} : \A a \in {0, 1} :
              \A o \in {actualizar_planeacion(u, id, t, a, 0, f, borra, sube)} :
                  ArchivoFalla(f, DOMAIN ALLOWED_MIME_TYPES_planeaciones, sube) =>
                      /\ o.resp.status \in {403, 503, 400, 500}
                      /\ o.filas = planeaciones
        /\ \A id \in DOMAIN proyectos : \A t \in {Ninguno, "t2"} :
              \A e \in {Ninguno, "pausado"} : \A eliminar_archivo \in BOOLEAN :
              \A o \in {actualizar_proyecto(u, id, t, e, f, eliminar_archivo, borra, sube)} :
                  ArchivoFalla(f, DOMAIN ALLOWED_MIME_TYPES_proyectos, sube) =>
                      /\ o.resp.status \in {403, 503, 400, 500}
                      /\ o.filas = proyectos
\* an update with a file was answered with an error of the file block (the
\* configuration of Drive had been consulted) and the row still has the
\* title it was created with
C26_Witness ==
    /\ resp.status \in {503, 400, 500}
    /\ \E i \in DOMAIN driveLog : driveLog[i] = "is_configured"
    /\ \/ /\ resp.op = "actualizar_planeacion"
          /\ \E id \in DOMAIN planeaciones : planeaciones[id].titulo = "t1"
       \/ /\ resp.op = "actualizar_proyecto"
          /\ \E id \in DOMAIN proyectos : proyectos[id].titulo = "t1"

\* C22: update_observador and delete_observador by a user who is not the
\* author of the observation, whatever the user's role, answer 403 and leave
\* table observadores as it was.
C22_OnlyAuthor ==
    \A id \in DOMAIN observadores : \A u \in Usuarios \ {observadores[id].docente_id} :
        /\ \A t \in Textos \cup {Ninguno} :
              \A o \in {update_observador(u, id, t)} :
                  o.resp.status = 403 /\ o.filas = observadores
        /\ \A o \in {delete_observador(u, id)} :
              o.resp.status = 403 /\ o.filas = observadores

\* C25: create_observador stamps the row with the integer that the active
\* period's nombre denotes; when the nombre denotes no integer the request is
\* answered 500 "Error de configuracion" and no row is written.
NoNumericos == {<<"I">>}
Esperado(n) ==
    CASE n = <<"1">> -> 1 [] n = <<"2">> -> 2 [] n = <<"3">> -> 3 [] n = <<"4">> -> 4
      [] n = <<" ", "2">> -> 2 [] n = <<"1", "0">> -> 10 [] n = <<"+", "1">> -> 1
C25_PeriodoParsed ==
    \A u \in Usuarios : \A e \in Estudiantes : \A t \in Textos : \A p \in PeriodosActivos :
        \A o \in {create_observador(u, e, t, p)} :
            LET n == periodos[p].nombre
                repetida == \E i \in DOMAIN observadores :
                                /\ observadores[i].estudiante_id = e
                                /\ observadores[i].docente_id = u
                                /\ observadores[i].periodo = Esperado(n)
            IN IF n \in NoNumericos
               THEN /\ o.resp.status = 500
                    /\ o.resp.detail = "Error de configuracion: el nombre del periodo activo no es un numero valido"
                    /\ o.filas = observadores
               ELSE /\ (o.resp.status = 201) <=> (Esperado(n) \in 1..4 /\ ~repetida)
                    /\ (o.resp.status = 201) =>
                          /\ DOMAIN o.filas = DOMAIN observadores \cup {o.resp.id}
                          /\ o.filas[o.resp.id].periodo = Esperado(n)
                    /\ (o.resp.status # 201) => o.filas = observadores
\* the active period's nombre is not a number and create_observador answered
\* 500 without writing a row
C25_Witness ==
    /\ resp.op = "create_observador" /\ resp.status = 500
    /\ \E p \in PeriodosActivos : periodos[p].nombre \in NoNumericos
    /\ observadores = << >>

\* C23: in every state reached by overlapping destacar_planeacion and
\* eliminar_planeacion_destacada requests, no two rows of
\* planeaciones_destacadas have the same planeacion_id; destacar_planeacion
\* on a plan that is already featured is not answered 201 and leaves the
\* table as it was, and a destacar_planeacion request that fails (400 at its
\* query, 500 at its commit) adds and changes no row.
UnaPorPlaneacion ==
    \A i \in DOMAIN destacadas : \A j \in DOMAIN destacadas :
        (destacadas[i].planeacion_id = destacadas[j].planeacion_id) => (i = j)
YaDestacadaFalla ==
    \A d \in DOMAIN destacadas : \A u \in Usuarios :
        \A o \in {destacar_planeacion(u, destacadas[d].planeacion_id, "r1")} :
            o.resp.status \in {400, 403} /\ o.filas = destacadas
FallaSinCambio ==
    (\E r \in DOMAIN enVuelo :
        /\ enVuelo[r].op = "destacar_planeacion"
        /\ enVuelo[r].pc \in {"consulta", "commit"}
        /\ enVuelo'[r].pc \in {"400", "500"})
    => (destacadas' = destacadas)
C23_FeaturedOnce ==
    [](UnaPorPlaneacion /\ YaDestacadaFalla) /\ [][FallaSinCambio]_vars
\* two overlapping requests featured the same plan: one was answered 201, the
\* other failed at its commit, and the plan has one row
C23_Witness ==
    \E r1 \in DOMAIN enVuelo : \E r2 \in DOMAIN enVuelo :
        /\ enVuelo[r1].op = "destacar_planeacion" /\ enVuelo[r1].pc = "201"
        /\ enVuelo[r2].op = "destacar_planeacion" /\ enVuelo[r2].pc = "500"
        /\ enVuelo[r1].id = enVuelo[r2].id
        /\ Cardinality({d \in DOMAIN destacadas :
                           destacadas[d].planeacion_id = enVuelo[r1].id}) = 1

\* C24: the visualizaciones of a featured plan, which start at 0, equal the
\* number of incrementar_visualizaciones requests on it that were answered
\* 200, whatever the interleaving of the requests.
C24_CounterExact ==
    \A d \in DOMAIN destacadas :
        destacadas[d].visualizaciones =
            Cardinality({r \in DOMAIN enVuelo :
                            /\ enVuelo[r].op = "incrementar_visualizaciones"
                            /\ enVuelo[r].id = d
                            /\ enVuelo[r].pc = "200"})

\* C30: subir_evidencia is answered 200 exactly when the caller owns the
\* schedule, Drive is configured, the file is within 10 MiB, and the upload
\* and the commit of the evidence row both succeed; then the row is written
\* and the activity goes from pendiente to completada, any other state being
\* kept.  Otherwise no evidence row is written and no activity changes, and
\* a file over 10 MiB is answered 400.
EvidenciaAceptada(u, a, f, sube, confirma) ==
    /\ cronogramas[actividades[a].cronograma_id].docente_id = u
    /\ driveConfigurado
    /\ f.size <= MAX_FILE_SIZE
    /\ sube /\ confirma
EstadoYFilas(a, o) ==
    IF o.resp.status = 200
    THEN /\ DOMAIN o.evidencias_actividad =
                DOMAIN evidencias_actividad \cup {o.resp.id}
         /\ o.resp.id \notin DOMAIN evidencias_actividad
         /\ o.evidencias_actividad[o.resp.id].actividad_id = a
         /\ o.actividades =
                [actividades EXCEPT ![a].estado =
                    IF @ = "pendiente" THEN "completada" ELSE @]
    ELSE /\ o.evidencias_actividad = evidencias_actividad
         /\ o.actividades = actividades
C30_EvidenceCompletes ==
    \A u \in Usuarios : \A a \in DOMAIN actividades : \A f \in Archivos :
        \A sube \in BOOLEAN : \A confirma \in BOOLEAN :
            \A o \in {subir_evidencia(u, a, f, sube, confirma)} :
                /\ (o.resp.status = 200) <=> EvidenciaAceptada(u, a, f, sube, confirma)
                /\ EstadoYFilas(a, o)
                /\ (/\ cronogramas[actividades[a].cronograma_id].docente_id = u
                    /\ driveConfigurado
                    /\ f.size > MAX_FILE_SIZE) => (o.resp.status = 400)

\* C21: a request that carries a token login issued, of a user whose activo
\* is now False, is answered 403 "Usuario inactivo" by every endpoint that
\* depends on get_current_user, whatever the request asks, and no table
\* changes; this holds in every state, hence from the first request after
\* the deactivation and for tokens issued while the user was active.
RespuestaInactivo == Resp("get_current_user", 403, "Usuario inactivo", 0)
TokensDeInactivos == {t \in tokens : t \in DOMAIN users /\ users[t].activo = FALSE}
InactivoRechazado ==
    \A t \in TokensDeInactivos :
        /\ \A p \in 1..(NumPeriodos + 1) : \A d \in PeriodoUpdate :
               PeticionUpdatePeriodo(t, p, d) = [resp |-> RespuestaInactivo, periodos |-> periodos]
        /\ \A id \in Usuarios : \A activo \in BOOLEAN :
               PeticionUpdateUser(t, id, {"activo"}, "docente", 0, activo)
                   = ResultadoAdmin(RespuestaInactivo, users, sedes, areas)
        /\ PeticionCrearCronograma(t, "t1") = [resp |-> RespuestaInactivo, filas |-> cronogramas]
ProhibidoSinCambio ==
    resp' = RespuestaInactivo =>
        UNCHANGED <<periodos, tablas, admin, otras, drive, nextFileId, driveConfigurado>>
C21_InactiveForbidden == []InactivoRechazado /\ [][ProhibidoSinCambio]_vars
C21_Witness ==
    /\ resp = RespuestaInactivo
    /\ TokensDeInactivos # {}

====
